---- MODULE Spec2Model ----
(***************************************************************************)
(* Model of the OAuth token endpoint with its in-memory token store        *)
(* (server/utils/tokenStorage.js, server/routes/oauth.js, utils/jwt.js,    *)
(* server/middleware/auth.js), of the persistent token store               *)
(* (utils/tokenStorageDB.js) and of the session registry and protocol      *)
(* bridge (server/sessionManager.js, mcpHandler.js, routes/mcp.js).        *)
(*                                                                         *)
(* The token endpoint counts time in whole seconds (now).  Every HTTP      *)
(* handler of the token endpoint runs without a suspension point (the      *)
(* handlers call the store synchronously), so each one is a single action. *)
(***************************************************************************)
EXTENDS Integers, Sequences, FiniteSets, TLC

(***************************************************************************)
(* Bounds of the model.                                                    *)
(***************************************************************************)
MaxCodes == 2          \* authorization codes minted in a behaviour
MaxRefresh == 2        \* refresh tokens minted in a behaviour
MaxTicks == 2          \* clock advances in a behaviour
MaxCalls == 2          \* POST /mcp requests in a behaviour
MaxProcs == 2          \* subprocesses spawned in a behaviour
MaxSse == 1            \* GET /mcp connections in a behaviour
MaxChunk == 3          \* characters in one stdout chunk
MaxBuffer == 1         \* characters of an unterminated tail kept in responseBuffer
MaxDepth == 4          \* suspended calls kept of a chain of async calls
MaxGrants == 2         \* token requests answered with the persistent backend
MaxClients == 2         \* registerClient calls in a behaviour
MaxAuths == 2          \* nonces a request to the upstream callback can carry

(***************************************************************************)
(* Program constants (seconds).                                            *)
(***************************************************************************)
CodeExpiresIn == 600          \* storeAuthorizationCode(..., expiresIn = 600)
ACCESS_TOKEN_EXPIRY == 3600   \* utils/jwt.js

(* config.timeouts (milliseconds).                                         *)
REQUEST_TIMEOUT == 180000
SESSION_IDLE_TIMEOUT == 1800000
SESSION_MAX_LIFETIME == 3600000
INITIALIZATION_TIMEOUT == 30000

(***************************************************************************)
(* Input domains.                                                          *)
(***************************************************************************)
Users == {"u1", "u2"}
ApiKeys == {"k1", "k2"}
(* What the upstream exchange can return: {userId, apiKey}.                *)
Logins == {<<"u1", "k1">>, <<"u2", "k2">>}
ClientIds == {"c1"}
RedirectUris == {"https://a/cb", "https://b/cb"}
Verifiers == {"v1", "v2"}
ScopeLists == {<<"mcp:read", "mcp:write">>}
TickSteps == {1, CodeExpiresIn}
NoParam == ""          \* a request parameter that is absent (falsy in JS)
(* client_id and client_secret of a token request: none, right, wrong.     *)
ClientCredentials == {<<NoParam, NoParam>>, <<"c1", "secret">>, <<"c1", "wrong">>}

(* crypto.createHash("sha256").update(v).digest("base64url"): a function   *)
(* of the verifier, injective on the verifiers of the model.               *)
S256(v) == IF v = "v1" THEN "h1" ELSE IF v = "v2" THEN "h2" ELSE "h0"
Challenges == {"h1", "h2"}

(* Requests on <path>/mcp.                                                 *)
Principals == {[userId |-> "u1", apiKey |-> "k1"], [userId |-> "u2", apiKey |-> "k2"]}
(* A principal whose token record carries no upstream API key.            *)
KeylessPrincipal == [userId |-> "u1", apiKey |-> ""]
NoHeader == ""
SessionHeaders == {"s1", NoHeader}
NoId == "undefined"
NoMethod == ""
PostRequests ==
  [user : Principals, header : {"s1"}, id : {"1", "2"}, method : {"tools/call"}]
    \cup [user : {[userId |-> "u1", apiKey |-> "k1"]}, header : {"s1"}, id : {"1"},
          method : {"initialize", NoMethod}]
    \cup [user : {[userId |-> "u1", apiKey |-> "k1"]}, header : {"s1"}, id : {NoId},
          method : {"tools/call", "notifications/initialized"}]
    \cup [user : Principals, header : {NoHeader}, id : {"1"}, method : {"tools/call"}]
    \cup [user : {KeylessPrincipal}, header : {"s1"}, id : {"1"}, method : {"tools/call"}]

(* Subprocess output: text over five characters, in chunks.                *)
Alphabet == {"1", "2", "n", "x", "\n"}
Chunks == UNION {[1..n -> Alphabet] : n \in 1..MaxChunk}
LineChunks == {c \in Chunks : c[Len(c)] = "\n"}     \* chunks that end with a line end
StreamRequests ==
  [user : {[userId |-> "u1", apiKey |-> "k1"]}, header : {"s1"}, id : {"1", "2"},
   method : {"tools/call"}]

(* Calls on the token store backends.                                      *)
Tokens == {"t1", "t2"}
StoreCalls == {<<"t1", 1>>, <<"t2", 0>>}

VARIABLES
  now,                 \* Date.now() in seconds
  ticks,               \* number of clock advances so far
  tokenStore,          \* access token -> record
  refreshTokenStore,   \* refresh token -> record
  userTokenMap,        \* userId -> set of access tokens
  authorizationCodes,  \* code -> record
  codeTimers,          \* code -> deadline of its setTimeout
  clients,             \* clientRegistry: client_id -> client_secret
  nextCode,            \* codes minted so far (generateSessionToken is fresh)
  nextRefresh,         \* refresh tokens minted so far (generateRefreshToken)
  issued,              \* every access token ever returned by POST /token
  consumed,            \* code -> times consumeAuthorizationCode returned its record
  rotated,             \* refresh tokens presented in a successful grant
  lastResp,            \* body of the last 200 answer of POST /oauth/token (<<>>: none yet)
  clock,               \* Date.now() of the bridge, in milliseconds
  activeSessions,      \* session id -> index of its session object
  sessionData,         \* the session objects ever created
  processes,           \* the subprocesses ever spawned (same index)
  calls,               \* the POST /mcp requests: response handle, timeout, closure
  sseConns,            \* the GET /mcp connections
  deliveredAfterNonJson, \* a reply was written after a non-JSON line, in one handleResponse
  dbAccessTokens,      \* table access_tokens: token -> row
  dbRefreshTokens,     \* table refresh_tokens: refresh_token -> row
  dbTasks,             \* async calls of the persistent backend in progress
  dbGrants,            \* answers of POST /oauth/token given with the persistent backend
  dbCallInfo,          \* the outermost persistent-backend call, <<>> when none was made
  sweepPc,             \* next statement of cleanupExpiredTokens (persistent backend)
  memCallInfo,         \* the last direct getAccessToken call on the in-memory backend
  openRouterAuths,     \* routes/oauth.js: nonce -> pending upstream exchange
  authzReq,            \* the last request to /oauth/authorize or /oauth/openrouter-callback
  authzResp,           \* and its answer
  origin,              \* refresh token -> <<userId, apiKey>> of the upstream exchange its chain began with
  clientRecords,       \* clientRegistry: client_id of a registered client -> its record without the secret
  registration         \* the last registerClient call: its metadata and what it returned

oauthVars == <<now, ticks, tokenStore, refreshTokenStore, userTokenMap,
               authorizationCodes, codeTimers, clients, nextCode, nextRefresh,
               issued, consumed, rotated, lastResp>>

oauthRest == <<now, ticks, codeTimers, clients, nextCode, nextRefresh, issued, consumed,
               rotated, lastResp>>

bridgeVars == <<clock, activeSessions, sessionData, processes, calls, sseConns,
                deliveredAfterNonJson>>

dbVars == <<dbAccessTokens, dbRefreshTokens, dbTasks, dbGrants, dbCallInfo, sweepPc>>

authzVars == <<openRouterAuths, authzReq, authzResp>>

auxVars == <<origin>>

regVars == <<clientRecords, registration>>

vars == <<oauthVars, bridgeVars, dbVars, memCallInfo, authzVars, auxVars, regVars>>

----------------------------------------------------------------------------
(* Maps with a varying key set (JS Map).                                   *)
Put(f, k, v) == [x \in (DOMAIN f) \cup {k} |-> IF x = k THEN v ELSE f[x]]
Del(f, k) == [x \in (DOMAIN f) \ {k} |-> f[x]]
EmptyMap == [x \in {} |-> 0]
Has(f, k) == k \in DOMAIN f

(* The four maps of the in-memory store, as one value.                     *)
MemStore == [tokenStore |-> tokenStore,
             refreshTokenStore |-> refreshTokenStore,
             userTokenMap |-> userTokenMap,
             authorizationCodes |-> authorizationCodes]

SetMemStore(S) ==
  /\ tokenStore' = S.tokenStore
  /\ refreshTokenStore' = S.refreshTokenStore
  /\ userTokenMap' = S.userTokenMap
  /\ authorizationCodes' = S.authorizationCodes

NoExpiry == -1         \* expiresAt = null

----------------------------------------------------------------------------
(* utils/jwt.js                                                            *)

(* jwt.sign(payload, JWT_SECRET): with a fixed secret the token is a       *)
(* function of the payload, so the token is modelled by its payload.       *)
generateAccessToken(userId, clientId, scopes, t) ==
  [sub |-> userId, client_id |-> clientId, scope |-> scopes, iat |-> t,
   exp |-> t + ACCESS_TOKEN_EXPIRY]

(* jwt.verify: the signature holds for every token this server signed;     *)
(* the token is rejected once the clock has reached exp.                   *)
verifyAccessToken(token, t) == t < token.exp

----------------------------------------------------------------------------
(* utils/tokenStorage.js (in-memory backend)                               *)

storeAccessToken(S, accessToken, refreshToken, apiKey, userId, clientId, scopes, expiresAt, t) ==
  LET ts == Put(S.tokenStore, accessToken,
                [apiKey |-> apiKey, userId |-> userId, clientId |-> clientId,
                 scopes |-> scopes, refreshToken |-> refreshToken,
                 expiresAt |-> expiresAt, createdAt |-> t])
      rs == IF refreshToken # 0
            THEN Put(S.refreshTokenStore, refreshToken,
                     [userId |-> userId, clientId |-> clientId, scopes |-> scopes,
                      accessToken |-> accessToken, createdAt |-> t])
            ELSE S.refreshTokenStore
      old == IF Has(S.userTokenMap, userId) THEN S.userTokenMap[userId] ELSE {}
      um == Put(S.userTokenMap, userId, old \cup {accessToken})
  IN [S EXCEPT !.tokenStore = ts, !.refreshTokenStore = rs, !.userTokenMap = um]

storeAuthorizationCode(S, code, userId, apiKey, clientId, redirectUri, codeChallenge, codeChallengeMethod, scopes, t) ==
  [S EXCEPT !.authorizationCodes =
     Put(@, code, [userId |-> userId, apiKey |-> apiKey, clientId |-> clientId,
                   redirectUri |-> redirectUri, codeChallenge |-> codeChallenge,
                   codeChallengeMethod |-> codeChallengeMethod, scopes |-> scopes,
                   expiresAt |-> t + CodeExpiresIn, createdAt |-> t])]

(* Variants of consumeAuthorizationCode with a plausible slip: the record   *)
(* is returned but left in the map; the PKCE comparison is left out.       *)
consumeAuthorizationCode_KeepsCode(S, code, codeVerifier, t) ==
  IF ~Has(S.authorizationCodes, code)
  THEN [found |-> FALSE, data |-> <<>>, store |-> S]
  ELSE LET codeData == S.authorizationCodes[code] IN
    IF t > codeData.expiresAt
    THEN [found |-> FALSE, data |-> <<>>,
          store |-> [S EXCEPT !.authorizationCodes = Del(@, code)]]
    ELSE IF codeData.codeChallengeMethod = "S256" /\ S256(codeVerifier) # codeData.codeChallenge
    THEN [found |-> FALSE, data |-> <<>>, store |-> S]
    ELSE [found |-> TRUE, data |-> <<codeData>>, store |-> S]

consumeAuthorizationCode_NoPkce(S, code, codeVerifier, t) ==
  IF ~Has(S.authorizationCodes, code)
  THEN [found |-> FALSE, data |-> <<>>, store |-> S]
  ELSE LET codeData == S.authorizationCodes[code] IN
    IF t > codeData.expiresAt
    THEN [found |-> FALSE, data |-> <<>>,
          store |-> [S EXCEPT !.authorizationCodes = Del(@, code)]]
    ELSE [found |-> TRUE, data |-> <<codeData>>,
          store |-> [S EXCEPT !.authorizationCodes = Del(@, code)]]

(* consumeAuthorizationCode(code, codeVerifier): [found, data, store].     *)

consumeAuthorizationCode(S, code, codeVerifier, t) ==
  IF ~Has(S.authorizationCodes, code)
  THEN [found |-> FALSE, data |-> <<>>, store |-> S]
  ELSE LET codeData == S.authorizationCodes[code] IN
    IF t > codeData.expiresAt
    THEN [found |-> FALSE, data |-> <<>>,
          store |-> [S EXCEPT !.authorizationCodes = Del(@, code)]]
    ELSE IF codeData.codeChallengeMethod = "S256" /\ S256(codeVerifier) # codeData.codeChallenge
    THEN [found |-> FALSE, data |-> <<>>, store |-> S]
    ELSE [found |-> TRUE, data |-> <<codeData>>,
          store |-> [S EXCEPT !.authorizationCodes = Del(@, code)]]

deleteToken(S, token) ==
  IF ~Has(S.tokenStore, token) THEN S
  ELSE LET tokenData == S.tokenStore[token]
           ts == Del(S.tokenStore, token)
           um == IF Has(S.userTokenMap, tokenData.userId)
                 THEN LET left == S.userTokenMap[tokenData.userId] \ {token}
                      IN IF left = {} THEN Del(S.userTokenMap, tokenData.userId)
                         ELSE Put(S.userTokenMap, tokenData.userId, left)
                 ELSE S.userTokenMap
       IN [S EXCEPT !.tokenStore = ts, !.userTokenMap = um]

(* getAccessToken(token): [found, data, store]; an expired record is       *)
(* deleted and not returned.                                               *)
getAccessToken(S, token, t) ==
  IF ~Has(S.tokenStore, token)
  THEN [found |-> FALSE, data |-> <<>>, store |-> S]
  ELSE LET tokenData == S.tokenStore[token] IN
    IF tokenData.expiresAt # NoExpiry /\ t > tokenData.expiresAt
    THEN [found |-> FALSE, data |-> <<>>, store |-> deleteToken(S, token)]
    ELSE [found |-> TRUE, data |-> <<tokenData>>, store |-> S]

getRefreshToken(S, refreshToken) ==
  IF Has(S.refreshTokenStore, refreshToken)
  THEN [found |-> TRUE, data |-> <<S.refreshTokenStore[refreshToken]>>]
  ELSE [found |-> FALSE, data |-> <<>>]

(* Variant of revokeRefreshToken that forgets the linked access token.     *)
revokeRefreshToken_KeepsAccess(S, refreshToken) ==
  IF Has(S.refreshTokenStore, refreshToken)
  THEN [S EXCEPT !.refreshTokenStore = Del(@, refreshToken)]
  ELSE S

revokeRefreshToken(S, refreshToken) ==
  IF Has(S.refreshTokenStore, refreshToken)
  THEN LET refreshData == S.refreshTokenStore[refreshToken]
           S1 == deleteToken(S, refreshData.accessToken)
       IN [S1 EXCEPT !.refreshTokenStore = Del(@, refreshToken)]
  ELSE S

(* cleanupExpiredTokens(): the 5 minute sweep of the in-memory backend.    *)
RECURSIVE DeleteAll(_, _)
DeleteAll(S, tokens) ==
  IF tokens = {} THEN S
  ELSE LET tk == CHOOSE x \in tokens : TRUE
       IN DeleteAll(deleteToken(S, tk), tokens \ {tk})

cleanupExpiredTokens(S, t) ==
  DeleteAll(S, {tk \in DOMAIN S.tokenStore :
                  S.tokenStore[tk].expiresAt # NoExpiry /\ t > S.tokenStore[tk].expiresAt})

----------------------------------------------------------------------------
(* utils/clientRegistry.js                                                 *)
verifyClient(clientId, clientSecret) ==
  IF ~Has(clients, clientId) THEN FALSE ELSE clients[clientId] = clientSecret

----------------------------------------------------------------------------
(* A variant of verifyBearerToken with a plausible slip: a verified JWT is *)
(* trusted on its own claims when the store has no record of it.           *)
verifyBearerToken_TrustsJwt(S, token, t) ==
  LET decoded == verifyAccessToken(token, t)
      r == getAccessToken(S, token, t)
  IN IF r.found
     THEN [ok |-> TRUE, message |-> "", store |-> r.store,
           user |-> <<[userId |-> r.data[1].userId, apiKey |-> r.data[1].apiKey,
                       clientId |-> r.data[1].clientId]>>]
     ELSE IF decoded
     THEN [ok |-> TRUE, message |-> "", store |-> r.store,
           user |-> <<[userId |-> token.sub, apiKey |-> "", clientId |-> token.client_id]>>]
     ELSE [ok |-> FALSE, message |-> "Invalid or expired token", user |-> <<>>, store |-> r.store]

(* server/middleware/auth.js: verifyBearerToken.  [ok, user, store]        *)
verifyBearerToken(S, token, t) ==
  LET decoded == verifyAccessToken(token, t)
      r == getAccessToken(S, token, t)
  IN IF decoded
     THEN IF ~r.found
          THEN [ok |-> FALSE, message |-> "Token not found in storage", user |-> <<>>, store |-> r.store]
          ELSE [ok |-> TRUE, message |-> "", store |-> r.store,
                user |-> <<[userId |-> r.data[1].userId, apiKey |-> r.data[1].apiKey,
                            clientId |-> r.data[1].clientId]>>]
     ELSE IF ~r.found
          THEN [ok |-> FALSE, message |-> "Invalid or expired token", user |-> <<>>, store |-> r.store]
          ELSE [ok |-> TRUE, message |-> "", store |-> r.store,
                user |-> <<[userId |-> r.data[1].userId, apiKey |-> r.data[1].apiKey,
                            clientId |-> r.data[1].clientId]>>]

(* The middleware would let a request bearing this token through.          *)
Accepted(token) == verifyBearerToken(MemStore, token, now).ok

----------------------------------------------------------------------------
InitOAuth ==
  /\ now = 0
  /\ ticks = 0
  /\ tokenStore = EmptyMap
  /\ refreshTokenStore = EmptyMap
  /\ userTokenMap = EmptyMap
  /\ authorizationCodes = EmptyMap
  /\ codeTimers = EmptyMap
  /\ clients = [c \in ClientIds |-> "secret"]
  /\ nextCode = 0
  /\ nextRefresh = 0
  /\ issued = {}
  /\ consumed = [c \in 1..MaxCodes |-> 0]
  /\ rotated = {}
  /\ lastResp = <<>>

----------------------------------------------------------------------------
(* server/routes/oauth.js                                                  *)

(* GET /oauth/openrouter-callback, after the upstream exchange returned    *)
(* {apiKey, userId}: mints a code bound to what the pending exchange holds *)
(* (client, redirect_uri, the downstream challenge, method "S256").        *)
OpenRouterCallback(userId, apiKey, clientId, redirectUri, codeChallenge, scopes) ==
  /\ nextCode < MaxCodes
  /\ LET authCode == nextCode + 1 IN
       /\ SetMemStore(storeAuthorizationCode(MemStore, authCode, userId, apiKey, clientId,
                                             redirectUri, codeChallenge, "S256", scopes, now))
       /\ codeTimers' = Put(codeTimers, authCode, now + CodeExpiresIn)
       /\ nextCode' = authCode
  /\ UNCHANGED <<now, ticks, clients, nextRefresh, issued, consumed, rotated, lastResp>>

(* The setTimeout armed by storeAuthorizationCode.                         *)
CodeTimerFire(code) ==
  /\ Has(codeTimers, code)
  /\ now >= codeTimers[code]
  /\ authorizationCodes' = Del(authorizationCodes, code)
  /\ codeTimers' = Del(codeTimers, code)
  /\ UNCHANGED <<now, ticks, tokenStore, refreshTokenStore, userTokenMap, clients,
                 nextCode, nextRefresh, issued, consumed, rotated, lastResp>>

(* POST /oauth/token, grant_type=authorization_code: what the handler      *)
(* answers and the store it leaves.                                        *)
AuthorizationCodeGrant(S, code, redirect_uri, client_id, client_secret, code_verifier, newRefresh, t) ==
  IF code = 0 \/ redirect_uri = NoParam \/ code_verifier = NoParam
  THEN [status |-> 400, error |-> "invalid_request", store |-> S, reached |-> FALSE,
        found |-> FALSE, access |-> <<>>, refresh |-> 0]
  ELSE IF client_id # NoParam /\ client_secret # NoParam /\ ~verifyClient(client_id, client_secret)
  THEN [status |-> 401, error |-> "invalid_client", store |-> S, reached |-> FALSE,
        found |-> FALSE, access |-> <<>>, refresh |-> 0]
  ELSE LET c == consumeAuthorizationCode(S, code, code_verifier, t) IN
    IF ~c.found
    THEN [status |-> 400, error |-> "invalid_grant", store |-> c.store, reached |-> TRUE,
          found |-> FALSE, access |-> <<>>, refresh |-> 0]
    ELSE LET codeData == c.data[1] IN
      IF codeData.redirectUri # redirect_uri
      THEN [status |-> 400, error |-> "invalid_request", store |-> c.store, reached |-> TRUE,
            found |-> TRUE, access |-> <<>>, refresh |-> 0]
      ELSE LET accessToken == generateAccessToken(codeData.userId, codeData.clientId,
                                                  codeData.scopes, t)
           IN [status |-> 200, error |-> "", reached |-> TRUE, found |-> TRUE,
               access |-> <<accessToken>>, refresh |-> newRefresh,
               store |-> storeAccessToken(c.store, accessToken, newRefresh, codeData.apiKey,
                                          codeData.userId, codeData.clientId,
                                          codeData.scopes, NoExpiry, t)]

TokenAuthorizationCode(code, redirect_uri, client_id, client_secret, code_verifier) ==
  /\ LET r == AuthorizationCodeGrant(MemStore, code, redirect_uri, client_id, client_secret,
                                     code_verifier, nextRefresh + 1, now)
     IN
       /\ r.status = 200 => nextRefresh < MaxRefresh
       /\ SetMemStore(r.store)
       /\ nextRefresh' = IF r.status = 200 THEN nextRefresh + 1 ELSE nextRefresh
       /\ issued' = IF r.status = 200 THEN issued \cup {r.access[1]} ELSE issued
       /\ consumed' = IF r.found THEN [consumed EXCEPT ![code] = @ + 1] ELSE consumed
       /\ lastResp' = IF r.status = 200
                       THEN <<[grant |-> "authorization_code", access_token |-> r.access[1],
                               refresh_token |-> r.refresh, presented |-> 0, old |-> <<>>]>>
                       ELSE lastResp
  /\ UNCHANGED <<now, ticks, codeTimers, clients, nextCode, rotated>>

(* POST /oauth/token, grant_type=refresh_token.                            *)
RefreshTokenGrant(S, refresh_token, newRefresh, t) ==
  IF refresh_token = 0
  THEN [status |-> 400, error |-> "invalid_request", store |-> S, old |-> <<>>,
        access |-> <<>>, refresh |-> 0]
  ELSE LET rd == getRefreshToken(S, refresh_token) IN
    IF ~rd.found
    THEN [status |-> 400, error |-> "invalid_grant", store |-> S, old |-> <<>>,
          access |-> <<>>, refresh |-> 0]
    ELSE LET refreshData == rd.data[1]
             od == getAccessToken(S, refreshData.accessToken, t)
         IN IF ~od.found
            THEN [status |-> 400, error |-> "invalid_grant", store |-> od.store,
                  old |-> <<refreshData.accessToken>>, access |-> <<>>, refresh |-> 0]
            ELSE LET oldTokenData == od.data[1]
                     newAccessToken == generateAccessToken(refreshData.userId,
                                         refreshData.clientId, refreshData.scopes, t)
                     S1 == storeAccessToken(od.store, newAccessToken, newRefresh,
                                            oldTokenData.apiKey, refreshData.userId,
                                            refreshData.clientId, refreshData.scopes,
                                            NoExpiry, t)
                     S2 == revokeRefreshToken(S1, refresh_token)
                 IN [status |-> 200, error |-> "", store |-> S2,
                     old |-> <<refreshData.accessToken>>,
                     access |-> <<newAccessToken>>, refresh |-> newRefresh]

TokenRefresh(refresh_token) ==
  /\ LET r == RefreshTokenGrant(MemStore, refresh_token, nextRefresh + 1, now) IN
       /\ r.status = 200 => nextRefresh < MaxRefresh
       /\ SetMemStore(r.store)
       /\ nextRefresh' = IF r.status = 200 THEN nextRefresh + 1 ELSE nextRefresh
       /\ issued' = IF r.status = 200 THEN issued \cup {r.access[1]} ELSE issued
       /\ rotated' = IF r.status = 200 THEN rotated \cup {refresh_token} ELSE rotated
       /\ lastResp' = IF r.status = 200
                       THEN <<[grant |-> "refresh_token", access_token |-> r.access[1],
                               refresh_token |-> r.refresh, presented |-> refresh_token,
                               old |-> r.old]>>
                       ELSE lastResp
  /\ UNCHANGED <<now, ticks, codeTimers, clients, nextCode, consumed>>

(* POST /oauth/token with any other grant_type.                            *)
TokenUnsupported ==
  /\ lastResp' = lastResp
  /\ UNCHANGED <<now, ticks, tokenStore, refreshTokenStore, userTokenMap, authorizationCodes,
                 codeTimers, clients, nextCode, nextRefresh, issued, consumed, rotated>>

(* A request to a Bearer-protected route, through verifyBearerToken.       *)
BearerRequest(token) ==
  /\ LET r == verifyBearerToken(MemStore, token, now) IN
       /\ SetMemStore(r.store)
       /\ lastResp' = lastResp
  /\ UNCHANGED <<now, ticks, codeTimers, clients, nextCode, nextRefresh, issued,
                 consumed, rotated>>

(* POST /oauth/introspect (req: <<>> without a token, <<token>> with one):  *)
(* the answer and the store getAccessToken leaves.                         *)
introspect(S, req, t) ==
  IF req = <<>>
  THEN [status |-> 400, active |-> FALSE, store |-> S]
  ELSE IF verifyAccessToken(req[1], t)
  THEN [status |-> 200, active |-> TRUE, store |-> S]
  ELSE LET r == getAccessToken(S, req[1], t) IN
       [status |-> 200, active |-> r.found, store |-> r.store]

IntrospectRequest(req) ==
  /\ SetMemStore(introspect(MemStore, req, now).store)
  /\ UNCHANGED <<now, ticks, codeTimers, clients, nextCode, nextRefresh, issued,
                 consumed, rotated, lastResp>>

(* setInterval(cleanupExpiredTokens, 5 min).                               *)
CleanupExpiredTokens ==
  /\ SetMemStore(cleanupExpiredTokens(MemStore, now))
  /\ UNCHANGED <<now, ticks, codeTimers, clients, nextCode, nextRefresh, issued,
                 consumed, rotated, lastResp>>

Tick(d) ==
  /\ ticks < MaxTicks
  /\ now' = now + d
  /\ ticks' = ticks + 1
  /\ UNCHANGED <<tokenStore, refreshTokenStore, userTokenMap, authorizationCodes,
                 codeTimers, clients, nextCode, nextRefresh, issued, consumed, rotated,
                 lastResp>>

(* The code, redirect_uri and code_verifier of a token request: all three  *)
(* present, or one of them absent.                                         *)
CodeRequests ==
  ((1..MaxCodes) \X RedirectUris \X Verifiers)
    \cup {<<0, "https://a/cb", "v1">>, <<1, NoParam, "v1">>, <<1, "https://a/cb", NoParam>>}

----------------------------------------------------------------------------
(***************************************************************************)
(* Session registry and protocol bridge: server/sessionManager.js,         *)
(* mcpHandler.js, routes/mcp.js.  Node runs every handler, timer callback  *)
(* and stream listener to completion before the next one starts, so each   *)
(* is one action.  The clock of this part counts milliseconds.             *)
(*                                                                         *)
(* Objects that closures keep alive after the registry forgot them are     *)
(* kept in sequences: sessionData[p] is the session object created         *)
(* together with subprocess p, calls[h] the state of the h-th POST (its    *)
(* response handle and its responseTimeout), sseConns[c] the c-th GET.     *)
(***************************************************************************)

(* The bridge variables as one value, for the functions of the code that   *)
(* read and update several of them.                                        *)
Bridge == [activeSessions |-> activeSessions,
           sessionData |-> sessionData,
           processes |-> processes,
           calls |-> calls,
           sseConns |-> sseConns,
           deliveredAfterNonJson |-> deliveredAfterNonJson]

SetBridge(W) ==
  /\ activeSessions' = W.activeSessions
  /\ sessionData' = W.sessionData
  /\ processes' = W.processes
  /\ calls' = W.calls
  /\ sseConns' = W.sseConns
  /\ deliveredAfterNonJson' = W.deliveredAfterNonJson

(* res.status(s).json({..., id, error: {code}}) on the handle of call h.   *)
ResJson(W, h, status, code, id) ==
  [W EXCEPT !.calls[h].res =
     [headersSent |-> TRUE, status |-> status, code |-> code, bodyId |-> id,
      sent |-> @.sent + 1]]

(* message.id || null *)
IdOrNull(id) == IF id = NoId THEN "null" ELSE id

(* createMcpProcess(userApiKey, userId): [threw, W]; the new subprocess is *)
(* the last element of W.processes.                                        *)
createMcpProcess(W, userApiKey, userId) ==
  IF userApiKey = NoParam
  THEN [threw |-> TRUE, W |-> W]
  ELSE [threw |-> FALSE,
        W |-> [W EXCEPT !.processes =
                 Append(@, [OPENROUTER_API_KEY |-> userApiKey,
                            killed |-> FALSE,
                            kills |-> 0,
                            exited |-> FALSE,
                            exitListener |-> <<>>,
                            stdin |-> {}])]]

(* cleanupSession(sessionId, reason) *)
(* Variant of cleanupSession that keeps the registry entry.                 *)
cleanupSession_KeepsEntry(W, sessionId, reason) ==
  IF ~Has(W.activeSessions, sessionId) THEN W
  ELSE
    LET p == W.activeSessions[sessionId]
    IN [W EXCEPT
          !.processes[p] = [@ EXCEPT !.killed = ~W.processes[p].exited,
                                     !.kills = @ + 1],
          !.sessionData[p] = [@ EXCEPT !.idleTimer = <<>>,
                                       !.lifetimeTimer = <<>>,
                                       !.pendingRequests = EmptyMap,
                                       !.terminated = reason]]

cleanupSession(W, sessionId, reason) ==
  IF ~Has(W.activeSessions, sessionId) THEN W
  ELSE
    LET p == W.activeSessions[sessionId]
        sd == W.sessionData[p]
        pend == {sd.pendingRequests[i].res : i \in DOMAIN sd.pendingRequests}
        answered(c, h) ==
          IF h \in pend
          THEN [c EXCEPT !.timeout = <<>>,
                         !.progressInterval = FALSE,
                         !.res = IF c.res.headersSent THEN @
                                 ELSE [headersSent |-> TRUE, status |-> 408, code |-> -32000,
                                       bodyId |-> "null", sent |-> @.sent + 1]]
          ELSE c
    IN [W EXCEPT
          !.calls = [h \in DOMAIN W.calls |-> answered(W.calls[h], h)],
          !.sseConns = [c \in DOMAIN W.sseConns |->
                          [W.sseConns[c] EXCEPT
                             !.writableEnded = IF c = sd.sseRes THEN TRUE ELSE @,
                             !.keepAlive = IF c = sd.keepAliveInterval THEN FALSE ELSE @]],
          !.processes[p] = IF W.processes[p].killed THEN @
                           ELSE [@ EXCEPT !.killed = ~W.processes[p].exited,
                                          !.kills = @ + 1],
          !.sessionData[p] = [@ EXCEPT !.idleTimer = <<>>,
                                       !.lifetimeTimer = <<>>,
                                       !.pendingRequests = EmptyMap,
                                       !.terminated = reason],
          !.activeSessions = Del(@, sessionId)]

(* Variant of resetSessionIdleTimer that arms the timer with the lifetime. *)
resetSessionIdleTimer_WrongDelay(sd, t) ==
  [sd EXCEPT !.lastActivity = t, !.idleTimer = <<t + SESSION_MAX_LIFETIME>>]

(* resetSessionIdleTimer(sessionData, sessionId) *)
resetSessionIdleTimer(sd, t) ==
  [sd EXCEPT !.lastActivity = t, !.idleTimer = <<t + SESSION_IDLE_TIMEOUT>>]

(* base64url(userId-ip), base64(ip+userAgent): one value per user.         *)
DerivedSessionId(reqUser) ==
  IF reqUser # <<>> /\ reqUser[1].userId = "u1" THEN "dTEtaXA"
  ELSE IF reqUser # <<>> /\ reqUser[1].userId = "u2" THEN "dTItaXA"
  ELSE "aXB1c2VyYWdl"

(* generateSessionId(req) *)
generateSessionId(header, reqUser) ==
  IF header # NoHeader THEN header ELSE DerivedSessionId(reqUser)

(* Variant of DifferentUser that lets every principal in.                  *)
DifferentUser_Never(sd, reqUser) == FALSE

(* getOrCreateSession: `req && req.user` and                               *)
(* `session.userId !== req.user.userId`.                                   *)
DifferentUser(sd, reqUser) == reqUser # <<>> /\ sd.userId # reqUser[1].userId

(* Variant of AuthenticationMissing that asks for a principal only.        *)
AuthenticationMissing_PrincipalOnly(reqUser) == reqUser = <<>>

(* getOrCreateSession: `!req || !req.user || !req.user.apiKey`.            *)
AuthenticationMissing(reqUser) == reqUser = <<>> \/ reqUser[1].apiKey = NoParam

(* getOrCreateSession(sessionId, req): [threw, message, session, W].       *)
(* reqUser is <<>> for `!req || !req.user`, <<principal>> otherwise.       *)
getOrCreateSession(W, sessionId, reqUser, t) ==
  IF Has(W.activeSessions, sessionId)
  THEN LET p == W.activeSessions[sessionId] IN
    IF DifferentUser(W.sessionData[p], reqUser)
    THEN [threw |-> TRUE, message |-> "Session belongs to a different user",
          session |-> 0, W |-> W]
    ELSE [threw |-> FALSE, message |-> "", session |-> p,
          W |-> [W EXCEPT !.sessionData[p] = resetSessionIdleTimer(@, t)]]
  ELSE IF AuthenticationMissing(reqUser)
  THEN [threw |-> TRUE, message |-> "Authentication required", session |-> 0, W |-> W]
  ELSE
    LET made == createMcpProcess(W, reqUser[1].apiKey, reqUser[1].userId)
        p == Len(made.W.processes)
        fresh == [sessionId |-> sessionId,
                  userId |-> reqUser[1].userId,
                  apiKey |-> reqUser[1].apiKey,
                  initialized |-> FALSE,
                  initializing |-> FALSE,
                  pendingRequests |-> EmptyMap,
                  responseBuffer |-> <<>>,
                  listenersSetup |-> FALSE,
                  lastActivity |-> t,
                  createdAt |-> t,
                  sseRes |-> 0,
                  idleTimer |-> <<>>,
                  lifetimeTimer |-> <<t + SESSION_MAX_LIFETIME>>,
                  keepAliveInterval |-> 0,
                  toolsChangedTimer |-> FALSE,
                  terminated |-> ""]
    IN [threw |-> FALSE, message |-> "", session |-> p,
        W |-> [made.W EXCEPT
                 !.sessionData = Append(@, resetSessionIdleTimer(fresh, t)),
                 !.activeSessions = Put(@, sessionId, p)]]

----------------------------------------------------------------------------
(* mcpHandler.js                                                           *)

(* getTimeoutForMethod without its special case for initialize *)
getTimeoutForMethod_Same(method) ==
  REQUEST_TIMEOUT

(* getTimeoutForMethod(method) *)
getTimeoutForMethod(method) ==
  IF method = "initialize" THEN INITIALIZATION_TIMEOUT ELSE REQUEST_TIMEOUT

(* setupProgressInterval(message, sessionData): is an interval started?    *)
setupProgressInterval(W, p, method) ==
  /\ method = "tools/call"
  /\ W.sessionData[p].sseRes # 0
  /\ ~W.sseConns[W.sessionData[p].sseRes].writableEnded

(* sseRes.write(event) when the session has an open sink.                  *)
SseWrite(W, p, event) ==
  LET c == W.sessionData[p].sseRes IN
    IF c # 0 /\ ~W.sseConns[c].writableEnded
    THEN [W EXCEPT !.sseConns[c].events = @ \cup {event}]
    ELSE W

(* JSON.parse of one trimmed output line.  The subprocess output is text   *)
(* over a five-character alphabet: the line "1" is the response with id 1, *)
(* "2" the response with id 2, "n" a notification (a method, no id); every *)
(* other non-empty line makes JSON.parse throw or has neither id nor       *)
(* method.                                                                 *)
JSONparse(line) ==
  IF line = <<"1">> \/ line = <<"2">>
  THEN [ok |-> TRUE, id |-> line[1], method |-> NoMethod]
  ELSE IF line = <<"n">>
  THEN [ok |-> TRUE, id |-> NoId, method |-> "notifications/message"]
  ELSE [ok |-> FALSE, id |-> NoId, method |-> NoMethod]

(* text.split("\n") *)
RECURSIVE SplitLines(_, _, _)
SplitLines(text, i, cur) ==
  IF i > Len(text) THEN <<cur>>
  ELSE IF text[i] = "\n" THEN <<cur>> \o SplitLines(text, i + 1, <<>>)
  ELSE SplitLines(text, i + 1, Append(cur, text[i]))

(* Variants of ResolvePending: the reply goes to the holder of another     *)
(* pending entry; the reply empties the whole pending map.                 *)
ResolvePending_OtherEntry(W, p, id) ==
  LET pending == W.sessionData[p].pendingRequests
      other == IF \E j \in DOMAIN pending : j # id
               THEN CHOOSE j \in DOMAIN pending : j # id ELSE id
      h == pending[other].res
      W1 == [W EXCEPT !.calls[h].progressInterval = FALSE,
                      !.calls[h].timeout = <<>>,
                      !.sessionData[p].pendingRequests = Del(@, other)]
  IN IF ~W1.calls[h].res.headersSent THEN ResJson(W1, h, 200, 0, id) ELSE W1

ResolvePending_ClearsAll(W, p, id) ==
  LET pendingRequest == W.sessionData[p].pendingRequests[id]
      h == pendingRequest.res
      W1 == [W EXCEPT !.calls = [k \in DOMAIN W.calls |->
                                   IF W.calls[k].session = p
                                   THEN [W.calls[k] EXCEPT !.timeout = <<>>,
                                                           !.progressInterval = FALSE]
                                   ELSE W.calls[k]],
                      !.sessionData[p].pendingRequests = EmptyMap]
  IN IF ~W1.calls[h].res.headersSent THEN ResJson(W1, h, 200, 0, id) ELSE W1

(* handleResponse, the branch of a line whose id has a pending entry:      *)
(* timers cleared, entry deleted, initialize recorded, reply written.      *)
ResolvePending(W, p, id) ==
  LET pendingRequest == W.sessionData[p].pendingRequests[id]
      h == pendingRequest.res
      W1 == [W EXCEPT !.calls[h].progressInterval = FALSE,
                      !.calls[h].timeout = <<>>,
                      !.sessionData[p].pendingRequests = Del(@, id)]
      W2 == IF pendingRequest.method = "initialize"
            THEN [W1 EXCEPT !.sessionData[p].initialized = TRUE,
                            !.sessionData[p].initializing = FALSE]
            ELSE W1
  IN IF ~W2.calls[h].res.headersSent THEN ResJson(W2, h, 200, 0, id) ELSE W2

(* Variant of ProcessLines in which a line that does not parse ends the    *)
(* loop.                                                                   *)
RECURSIVE ProcessLines_StopsAtNonJson(_, _, _, _, _)
ProcessLines_StopsAtNonJson(W, p, lines, i, sawNonJson) ==
  IF i > Len(lines) THEN W
  ELSE IF lines[i] = <<>> THEN ProcessLines_StopsAtNonJson(W, p, lines, i + 1, sawNonJson)
  ELSE LET parsed == JSONparse(lines[i]) IN
    IF ~parsed.ok THEN W
    ELSE IF parsed.id # NoId
    THEN IF Has(W.sessionData[p].pendingRequests, parsed.id)
         THEN [ResolvePending(W, p, parsed.id) EXCEPT
                 !.deliveredAfterNonJson = @ \/ sawNonJson]
         ELSE ProcessLines_StopsAtNonJson(W, p, lines, i + 1, sawNonJson)
    ELSE ProcessLines_StopsAtNonJson(SseWrite(W, p, parsed.method), p, lines, i + 1,
                                     sawNonJson)

(* Variant of ProcessLines in which a response whose id has no pending     *)
(* entry is delivered to some pending request.                             *)
RECURSIVE ProcessLines_LateToOther(_, _, _, _, _)
ProcessLines_LateToOther(W, p, lines, i, sawNonJson) ==
  IF i > Len(lines) THEN W
  ELSE IF lines[i] = <<>> THEN ProcessLines_LateToOther(W, p, lines, i + 1, sawNonJson)
  ELSE LET parsed == JSONparse(lines[i]) IN
    IF ~parsed.ok THEN ProcessLines_LateToOther(W, p, lines, i + 1, TRUE)
    ELSE IF parsed.id # NoId
    THEN IF Has(W.sessionData[p].pendingRequests, parsed.id)
         THEN ResolvePending(W, p, parsed.id)
         ELSE IF W.sessionData[p].pendingRequests # EmptyMap
         THEN ResolvePending(W, p, CHOOSE j \in DOMAIN W.sessionData[p].pendingRequests : TRUE)
         ELSE ProcessLines_LateToOther(W, p, lines, i + 1, sawNonJson)
    ELSE ProcessLines_LateToOther(SseWrite(W, p, parsed.method), p, lines, i + 1, sawNonJson)

(* handleResponse, the loop over the complete lines from line i on.  A     *)
(* delivered response returns from handleResponse.  sawNonJson: a line     *)
(* before line i was logged as non-JSON output.                            *)
RECURSIVE ProcessLines(_, _, _, _, _)
ProcessLines(W, p, lines, i, sawNonJson) ==
  IF i > Len(lines) THEN W
  ELSE IF lines[i] = <<>> THEN ProcessLines(W, p, lines, i + 1, sawNonJson)
  ELSE LET parsed == JSONparse(lines[i]) IN
    IF ~parsed.ok THEN ProcessLines(W, p, lines, i + 1, TRUE)
    ELSE IF parsed.id # NoId
    THEN IF Has(W.sessionData[p].pendingRequests, parsed.id)
         THEN [ResolvePending(W, p, parsed.id) EXCEPT
                 !.deliveredAfterNonJson = @ \/ sawNonJson]
         ELSE ProcessLines(W, p, lines, i + 1, sawNonJson)
    ELSE ProcessLines(SseWrite(W, p, parsed.method), p, lines, i + 1, sawNonJson)

(* handleResponse(data) of the session object p.                           *)
handleResponse(W, p, data) ==
  LET lines == SplitLines(W.sessionData[p].responseBuffer \o data, 1, <<>>)
      W1 == [W EXCEPT !.sessionData[p].responseBuffer = lines[Len(lines)]]
  IN ProcessLines(W1, p, SubSeq(lines, 1, Len(lines) - 1), 1, FALSE)

(* setupMcpListeners(sessionData, sessionId) *)
setupMcpListeners(W, p, sessionId) ==
  IF W.sessionData[p].listenersSetup THEN W
  ELSE [W EXCEPT !.sessionData[p].listenersSetup = TRUE,
                 !.processes[p].exitListener = <<sessionId>>]

(* handleNotification(message, sessionData, res) for call h.               *)
handleNotification(W, p, h, method) ==
  LET W1 == IF W.processes[p].exited THEN W
            ELSE [W EXCEPT !.processes[p].stdin = @ \cup {h}]
      W2 == IF method = "notifications/initialized"
            THEN [W1 EXCEPT !.sessionData[p].initialized = TRUE,
                            !.sessionData[p].initializing = FALSE,
                            !.sessionData[p].toolsChangedTimer = TRUE]
            ELSE W1
  IN ResJson(W2, h, 202, 0, "null")

----------------------------------------------------------------------------
(* routes/mcp.js                                                           *)

(* router.post("/mcp", verifyBearerToken, ...) for a request that passed   *)
(* verifyBearerToken with principal req.user; h is the call's index.       *)
PostMcpHandler(W0, req, t) ==
  LET h == Len(W0.calls) + 1
      sessionId == generateSessionId(req.header, <<req.user>>)
      W == [W0 EXCEPT !.calls =
              Append(@, [user |-> req.user, sessionId |-> sessionId, id |-> req.id,
                         method |-> req.method, session |-> 0, timeout |-> <<>>,
                         progressInterval |-> FALSE,
                         res |-> [headersSent |-> FALSE, status |-> 0, code |-> 0,
                                  bodyId |-> "null", sent |-> 0]])]
  IN
  IF req.method = NoMethod
  THEN ResJson(W, h, 400, -32600, IdOrNull(req.id))
  ELSE LET got == getOrCreateSession(W, sessionId, <<req.user>>, t) IN
  IF got.threw
  THEN ResJson(got.W, h, 401, -32000, IdOrNull(req.id))
  ELSE LET p == got.session
           Wa == [got.W EXCEPT !.calls[h].session = p]
  IN
  IF Wa.processes[p].killed
  THEN ResJson(cleanupSession(Wa, sessionId, "process unavailable"), h, 500, -32603,
               IdOrNull(req.id))
  ELSE LET Wb == IF req.method = "initialize"
                 THEN [Wa EXCEPT !.sessionData[p].initialized = FALSE,
                                 !.sessionData[p].initializing = TRUE]
                 ELSE Wa
  IN
  IF req.method = "notifications/initialized"
  THEN handleNotification(Wb, p, h, req.method)
  ELSE LET Wc == setupMcpListeners(Wb, p, sessionId)
           Wd == [Wc EXCEPT !.calls[h].timeout = <<t + getTimeoutForMethod(req.method)>>,
                            !.calls[h].progressInterval =
                               setupProgressInterval(Wc, p, req.method)]
           We == IF req.id # NoId
                 THEN [Wd EXCEPT !.sessionData[p].pendingRequests =
                         Put(@, req.id, [res |-> h, method |-> req.method])]
                 ELSE Wd
  IN
  IF We.processes[p].exited
  THEN \* stdin is not writable: throw, caught at the end of the handler
       LET Wf == [We EXCEPT !.calls[h].progressInterval = FALSE]
           Wg == IF req.id # NoId /\ Has(Wf.sessionData[p].pendingRequests, req.id)
                 THEN LET k == Wf.sessionData[p].pendingRequests[req.id].res IN
                      [Wf EXCEPT !.calls[k].progressInterval = FALSE,
                                 !.calls[k].timeout = <<>>,
                                 !.sessionData[p].pendingRequests = Del(@, req.id)]
                 ELSE Wf
       IN IF ~Wg.calls[h].res.headersSent
          THEN ResJson(Wg, h, 500, -32603, IdOrNull(req.id)) ELSE Wg
  ELSE [We EXCEPT !.processes[p].stdin = @ \cup {h}]

PostMcp(req) ==
  /\ Len(calls) < MaxCalls
  /\ LET W == PostMcpHandler(Bridge, req, clock) IN
       /\ Len(W.processes) <= MaxProcs
       /\ SetBridge(W)
  /\ UNCHANGED clock

(* The responseTimeout callback of call h: it looks the pending entry up   *)
(* by message.id and answers the response handle that entry holds.         *)
responseTimeout(W, h) ==
  LET p == W.calls[h].session
      id == W.calls[h].id
      W1 == [W EXCEPT !.calls[h].timeout = <<>>,
                      !.calls[h].progressInterval = FALSE]
  IN IF id # NoId /\ Has(W1.sessionData[p].pendingRequests, id)
     THEN LET k == W1.sessionData[p].pendingRequests[id].res
              W2 == [W1 EXCEPT !.sessionData[p].pendingRequests = Del(@, id)]
          IN IF ~W2.calls[k].res.headersSent
             THEN ResJson(W2, k, 408, -32001, IdOrNull(id)) ELSE W2
     ELSE W1

RequestTimeout(h) ==
  /\ h \in DOMAIN calls
  /\ calls[h].timeout # <<>>
  /\ clock >= calls[h].timeout[1]
  /\ SetBridge(responseTimeout(Bridge, h))
  /\ UNCHANGED clock

(* router.get("/mcp", verifyBearerToken, ...): res.writeHead(200) and the  *)
(* first write go out before the session is looked up.  When               *)
(* getOrCreateSession throws, the catch block finds res.headersSent true,  *)
(* sends nothing and returns: the response stays open with status 200.     *)
GetMcpHandler(W, user, header, t) ==
  LET c == Len(W.sseConns) + 1
      sessionId == generateSessionId(header, <<user>>)
      got == getOrCreateSession(W, sessionId, <<user>>, t)
      conn == [user |-> user, session |-> got.session, status |-> 200,
               headersSent |-> TRUE,
               writableEnded |-> FALSE, closed |-> FALSE, events |-> {},
               keepAlive |-> ~got.threw]
      W1 == [got.W EXCEPT !.sseConns = Append(@, conn)]
  IN IF got.threw THEN W1
     ELSE [W1 EXCEPT !.sessionData[got.session].sseRes = c,
                     !.sessionData[got.session].keepAliveInterval = c]

GetMcp(user, header) ==
  /\ Len(sseConns) < MaxSse
  /\ LET W == GetMcpHandler(Bridge, user, header, clock) IN
       /\ Len(W.processes) <= MaxProcs
       /\ SetBridge(W)
  /\ UNCHANGED clock

(* The "close" listener of the c-th GET: its own interval is cleared and   *)
(* the sink of the session object it closed over is set to null.           *)
SseCloseHandler(W, c) ==
  LET p == W.sseConns[c].session
      W1 == [W EXCEPT !.sseConns[c].closed = TRUE,
                      !.sseConns[c].writableEnded = TRUE,
                      !.sseConns[c].keepAlive = FALSE]
  IN IF p # 0 THEN [W1 EXCEPT !.sessionData[p].sseRes = 0] ELSE W1

(* req.on("close") of the c-th GET.                                        *)
SseClose(c) ==
  /\ c \in DOMAIN sseConns
  /\ ~sseConns[c].closed
  /\ SetBridge(SseCloseHandler(Bridge, c))
  /\ UNCHANGED clock

(* The 500 ms timer of handleNotification: tools/list_changed to the sink. *)
ToolsChangedTimer(p) ==
  /\ p \in DOMAIN sessionData
  /\ sessionData[p].toolsChangedTimer
  /\ SetBridge(SseWrite([Bridge EXCEPT !.sessionData[p].toolsChangedTimer = FALSE], p,
                        "notifications/tools/list_changed"))
  /\ UNCHANGED clock

(* process.stdout.on("data", handleResponse)                               *)
StdoutData(p, data) ==
  /\ p \in DOMAIN processes
  /\ sessionData[p].listenersSetup
  /\ ~processes[p].exited
  /\ LET W == handleResponse(Bridge, p, data) IN
       /\ Len(W.sessionData[p].responseBuffer) <= MaxBuffer
       /\ SetBridge(W)
  /\ UNCHANGED clock

(* The bridge after the exit event of subprocess p has been handled.       *)
AfterExit(W, p) ==
  LET W1 == [W EXCEPT !.processes[p].exited = TRUE] IN
    IF W1.processes[p].exitListener # <<>>
    THEN cleanupSession(W1, W1.processes[p].exitListener[1], "process exited")
    ELSE W1

(* The subprocess ends (by itself or after kill()) and its exit event is   *)
(* handled: the listener of setupMcpListeners, when attached, cleans up    *)
(* the session id it closed over.                                          *)
ProcessExit(p) ==
  /\ p \in DOMAIN processes
  /\ ~processes[p].exited
  /\ SetBridge(AfterExit(Bridge, p))
  /\ UNCHANGED clock

(* The idle timer of session object p fires.                               *)
IdleTimeout(p) ==
  /\ p \in DOMAIN sessionData
  /\ sessionData[p].idleTimer # <<>>
  /\ clock >= sessionData[p].idleTimer[1]
  /\ SetBridge(cleanupSession([Bridge EXCEPT !.sessionData[p].idleTimer = <<>>],
                              sessionData[p].sessionId, "idle timeout"))
  /\ UNCHANGED clock

(* The lifetime timer of session object p fires.                           *)
LifetimeTimeout(p) ==
  /\ p \in DOMAIN sessionData
  /\ sessionData[p].lifetimeTimer # <<>>
  /\ clock >= sessionData[p].lifetimeTimer[1]
  /\ SetBridge(cleanupSession([Bridge EXCEPT !.sessionData[p].lifetimeTimer = <<>>],
                              sessionData[p].sessionId, "max lifetime reached"))
  /\ UNCHANGED clock

(* startSessionCleanup: one run of the periodic sweep.                     *)
SweepReason(W, sessionId, t) ==
  LET p == W.activeSessions[sessionId] IN
    IF t - W.sessionData[p].createdAt > SESSION_MAX_LIFETIME THEN "max lifetime exceeded"
    ELSE IF W.processes[p].killed THEN "process died"
    ELSE IF t - W.sessionData[p].lastActivity > SESSION_IDLE_TIMEOUT THEN "idle too long"
    ELSE ""

RECURSIVE SweepAll(_, _, _)
SweepAll(W, ids, t) ==
  IF ids = {} THEN W
  ELSE LET sessionId == CHOOSE s \in ids : TRUE
           reason == SweepReason(W, sessionId, t)
       IN SweepAll(IF reason # "" THEN cleanupSession(W, sessionId, reason) ELSE W,
                   ids \ {sessionId}, t)

SessionSweep ==
  /\ SetBridge(SweepAll(Bridge, DOMAIN activeSessions, clock))
  /\ UNCHANGED clock

(* Every armed timer with a deadline.                                      *)
ArmedDeadlines ==
  {calls[h].timeout[1] : h \in {k \in DOMAIN calls : calls[k].timeout # <<>>}}
    \cup {sessionData[p].idleTimer[1] :
            p \in {q \in DOMAIN sessionData : sessionData[q].idleTimer # <<>>}}
    \cup {sessionData[p].lifetimeTimer[1] :
            p \in {q \in DOMAIN sessionData : sessionData[q].lifetimeTimer # <<>>}}

(* Time passes until the next timer is due.  A timer that is due fires     *)
(* before time passes it; what happens between two deadlines happens at    *)
(* the earlier one.                                                        *)
Advance ==
  /\ ArmedDeadlines # {}
  /\ \A x \in ArmedDeadlines : clock < x
  /\ clock' = CHOOSE x \in ArmedDeadlines : \A y \in ArmedDeadlines : x <= y
  /\ UNCHANGED <<activeSessions, sessionData, processes, calls, sseConns,
                 deliveredAfterNonJson>>

InitBridge ==
  /\ clock = 0
  /\ activeSessions = EmptyMap
  /\ sessionData = <<>>
  /\ processes = <<>>
  /\ calls = <<>>
  /\ sseConns = <<>>
  /\ deliveredAfterNonJson = FALSE

----------------------------------------------------------------------------
(***************************************************************************)
(* The persistent backend (utils/tokenStorageDB.js).  Every function is    *)
(* async and suspends at each `await`; one action is the code between two  *)
(* suspension points.  dbTasks holds the async calls in progress: each is  *)
(* the chain of suspended calls (stack, innermost last) and the value the  *)
(* callee that returned last handed to its caller (ret).  The steps of     *)
(* different calls, and of the periodic sweep (sweepPc), interleave.       *)
(***************************************************************************)

Frame(fn, pc, token, args) == [fn |-> fn, pc |-> pc, token |-> token, args |-> args]

(* Call fn from the innermost frame, which continues at resume.  The       *)
(* recursion of the code has no bound; the model keeps MaxDepth frames and *)
(* folds a deeper chain by dropping one getAccessToken/deleteToken pair    *)
(* above the outermost frame (the dropped frames equal the ones kept).     *)
PushCall(stack, resume, fn, token) ==
  LET n == Len(stack)
      s1 == [stack EXCEPT ![n].pc = resume]
      s2 == IF n < MaxDepth THEN s1
            ELSE <<s1[1]>> \o SubSeq(s1, 4, n)
  IN Append(s2, Frame(fn, "start", token, <<>>))

Pop(stack) == SubSeq(stack, 1, Len(stack) - 1)

Top(i) == dbTasks[i].stack[Len(dbTasks[i].stack)]

(* The innermost frame of call i is in function fn at point pc.            *)
At(i, fn, pc) == Top(i).fn = fn /\ Top(i).pc = pc

DbExpired(row, t) == row.expires_at # NoExpiry /\ t > row.expires_at

(* A task: observed marks the call whose outcome dbCallInfo records.       *)
Task(fn, token, args, observed) ==
  [stack |-> <<Frame(fn, "start", token, args)>>, ret |-> <<>>, observed |-> observed]

(* Call i continues with this stack and returned value; a call whose       *)
(* outermost function has returned is gone.                                *)
Continue(i, stack, ret) ==
  dbTasks' = IF stack = <<>>
             THEN SubSeq(dbTasks, 1, i - 1) \o SubSeq(dbTasks, i + 1, Len(dbTasks))
             ELSE [dbTasks EXCEPT ![i].stack = stack, ![i].ret = ret]

(* The innermost frame of call i moves to point pc.                        *)
Goto(i, pc) ==
  dbTasks' = [dbTasks EXCEPT ![i].stack[Len(dbTasks[i].stack)].pc = pc]

(* A caller outside the module starts one of the exported functions and    *)
(* awaits it; such calls are made one at a time.                           *)
(* args: <<refreshToken, expiresAt, apiKey, userId>> of storeAccessToken.  *)
DbCall(fn, token, args) ==
  /\ dbTasks = <<>>
  /\ dbTasks' = <<Task(fn, token, args, TRUE)>>
  /\ dbCallInfo' = <<[fn |-> fn, token |-> token,
                      expired |-> FALSE,
                      returned |-> FALSE, found |-> FALSE, deleted |-> FALSE]>>
  /\ UNCHANGED <<dbAccessTokens, dbRefreshTokens, sweepPc, dbGrants>>

(* The innermost function of call i returns value ret; info is the record  *)
(* kept of the observed call.                                              *)
DbReturnWith(i, ret, info) ==
  /\ Continue(i, Pop(dbTasks[i].stack), ret)
  /\ dbCallInfo' = IF dbTasks[i].observed /\ Len(dbTasks[i].stack) = 1
                   THEN <<[info[1] EXCEPT !.returned = TRUE, !.found = ret # <<>>]>>
                   ELSE info

DbReturn(i, ret) == DbReturnWith(i, ret, dbCallInfo)

(* Call i has issued DELETE FROM access_tokens.                            *)
DeleteIssued(i) ==
  IF dbTasks[i].observed THEN <<[dbCallInfo[1] EXCEPT !.deleted = TRUE]>> ELSE dbCallInfo

(* storeAccessToken: INSERT OR REPLACE INTO access_tokens.  api_key and    *)
(* user_id are NOT NULL: without them the statement fails and the call     *)
(* throws.                                                                 *)
DbStoreAccessRow(i) ==
  /\ At(i, "storeAccessToken", "start")
  /\ IF Top(i).args[3] = NoParam \/ Top(i).args[4] = NoParam
     THEN /\ DbReturn(i, <<>>)
          /\ UNCHANGED dbAccessTokens
     ELSE /\ dbAccessTokens' = Put(dbAccessTokens, Top(i).token,
                                   [refresh_token |-> Top(i).args[1],
                                    expires_at |-> Top(i).args[2],
                                    user_id |-> Top(i).args[4],
                                    created_at |-> now])
          /\ IF Top(i).args[1] # 0
             THEN Goto(i, "insertRefresh") /\ UNCHANGED dbCallInfo
             ELSE DbReturn(i, <<>>)
  /\ UNCHANGED <<dbRefreshTokens, sweepPc, dbGrants>>

(* storeAccessToken: INSERT OR REPLACE INTO refresh_tokens.                *)
DbStoreRefreshRow(i) ==
  /\ At(i, "storeAccessToken", "insertRefresh")
  /\ dbRefreshTokens' = Put(dbRefreshTokens, Top(i).args[1],
                            [access_token |-> Top(i).token, user_id |-> Top(i).args[4],
                             created_at |-> now])
  /\ DbReturn(i, <<>>)
  /\ UNCHANGED <<dbAccessTokens, sweepPc, dbGrants>>

(* getAccessToken: the SELECT has answered.                                *)
DbGetAccessTokenSelect(i) ==
  /\ At(i, "getAccessToken", "start")
  /\ IF ~Has(dbAccessTokens, Top(i).token)
     THEN DbReturn(i, <<>>)
     ELSE IF DbExpired(dbAccessTokens[Top(i).token], now)
     THEN /\ dbTasks' = [dbTasks EXCEPT ![i].stack =
                           PushCall(@, "afterDelete", "deleteToken", Top(i).token)]
          /\ dbCallInfo' = IF dbTasks[i].observed /\ Len(dbTasks[i].stack) = 1
                           THEN <<[dbCallInfo[1] EXCEPT !.expired = TRUE]>>
                           ELSE dbCallInfo
     ELSE DbReturn(i, <<dbAccessTokens[Top(i).token]>>)
  /\ UNCHANGED <<dbAccessTokens, dbRefreshTokens, sweepPc, dbGrants>>

(* getAccessToken: `await deleteToken(token)` has returned.                *)
DbGetAccessTokenAfterDelete(i) ==
  /\ At(i, "getAccessToken", "afterDelete")
  /\ DbReturn(i, <<>>)
  /\ UNCHANGED <<dbAccessTokens, dbRefreshTokens, sweepPc, dbGrants>>

(* deleteToken: `const tokenData = await getAccessToken(token)`.           *)
DbDeleteTokenLookup(i) ==
  /\ At(i, "deleteToken", "start")
  /\ dbTasks' = [dbTasks EXCEPT ![i].stack =
                   PushCall(@, "haveToken", "getAccessToken", Top(i).token)]
  /\ UNCHANGED <<dbCallInfo, dbAccessTokens, dbRefreshTokens, sweepPc, dbGrants>>

(* deleteToken: getAccessToken has returned tokenData; DELETE FROM         *)
(* access_tokens when it is not null.                                      *)
DbDeleteTokenRow(i) ==
  /\ At(i, "deleteToken", "haveToken")
  /\ IF dbTasks[i].ret # <<>>
     THEN /\ dbAccessTokens' = Del(dbAccessTokens, Top(i).token)
          /\ IF dbTasks[i].ret[1].refresh_token # 0
             THEN /\ Goto(i, "deleteRefresh")
                  /\ dbCallInfo' = DeleteIssued(i)
             ELSE DbReturnWith(i, <<>>, DeleteIssued(i))
     ELSE /\ DbReturn(i, <<>>)
          /\ UNCHANGED dbAccessTokens
  /\ UNCHANGED <<dbRefreshTokens, sweepPc, dbGrants>>

(* deleteToken: DELETE FROM refresh_tokens.                                *)
DbDeleteRefreshRow(i) ==
  /\ At(i, "deleteToken", "deleteRefresh")
  /\ dbRefreshTokens' = Del(dbRefreshTokens, dbTasks[i].ret[1].refresh_token)
  /\ DbReturn(i, <<>>)
  /\ UNCHANGED <<dbAccessTokens, sweepPc, dbGrants>>

(* getRefreshToken: the SELECT has answered.                               *)
DbGetRefreshTokenSelect(i) ==
  /\ At(i, "getRefreshToken", "start")
  /\ IF Has(dbRefreshTokens, Top(i).token)
     THEN DbReturn(i, <<dbRefreshTokens[Top(i).token]>>)
     ELSE DbReturn(i, <<>>)
  /\ UNCHANGED <<dbAccessTokens, dbRefreshTokens, sweepPc, dbGrants>>

(* revokeRefreshToken: `const refreshData = await getRefreshToken(...)`.   *)
DbRevokeLookup(i) ==
  /\ At(i, "revokeRefreshToken", "start")
  /\ dbTasks' = [dbTasks EXCEPT ![i].stack =
                   PushCall(@, "haveRefresh", "getRefreshToken", Top(i).token)]
  /\ UNCHANGED <<dbCallInfo, dbAccessTokens, dbRefreshTokens, sweepPc, dbGrants>>

(* revokeRefreshToken: `await deleteToken(refreshData.accessToken)` when   *)
(* refreshData is not null.                                                *)
DbRevokeDeleteToken(i) ==
  /\ At(i, "revokeRefreshToken", "haveRefresh")
  /\ IF dbTasks[i].ret # <<>>
     THEN /\ dbTasks' = [dbTasks EXCEPT ![i].stack =
                           PushCall(@, "deleteRefresh", "deleteToken",
                                    dbTasks[i].ret[1].access_token)]
          /\ UNCHANGED dbCallInfo
     ELSE DbReturn(i, <<>>)
  /\ UNCHANGED <<dbAccessTokens, dbRefreshTokens, sweepPc, dbGrants>>

(* revokeRefreshToken: DELETE FROM refresh_tokens.                         *)
DbRevokeDeleteRefresh(i) ==
  /\ At(i, "revokeRefreshToken", "deleteRefresh")
  /\ dbRefreshTokens' = Del(dbRefreshTokens, Top(i).token)
  /\ DbReturn(i, <<>>)
  /\ UNCHANGED <<dbAccessTokens, sweepPc, dbGrants>>

(* cleanupExpiredTokens, from setInterval: its three statements.           *)
DbSweepAccess ==
  /\ sweepPc = "idle"
  /\ dbAccessTokens' = [tk \in {k \in DOMAIN dbAccessTokens :
                                  ~(dbAccessTokens[k].expires_at # NoExpiry
                                    /\ dbAccessTokens[k].expires_at < now)}
                          |-> dbAccessTokens[tk]]
  /\ sweepPc' = "orphans"
  /\ UNCHANGED <<dbRefreshTokens, dbTasks, dbCallInfo, dbGrants>>

DbSweepOrphans ==
  /\ sweepPc = "orphans"
  /\ dbRefreshTokens' = [r \in {k \in DOMAIN dbRefreshTokens :
                                  Has(dbAccessTokens, dbRefreshTokens[k].access_token)}
                           |-> dbRefreshTokens[r]]
  /\ sweepPc' = "codes"
  /\ UNCHANGED <<dbAccessTokens, dbTasks, dbCallInfo, dbGrants>>

DbSweepCodes ==
  /\ sweepPc = "codes"
  /\ sweepPc' = "idle"
  /\ UNCHANGED <<dbAccessTokens, dbRefreshTokens, dbTasks, dbCallInfo, dbGrants>>

InitBackends ==
  /\ dbAccessTokens = EmptyMap
  /\ dbRefreshTokens = EmptyMap
  /\ dbTasks = <<>>
  /\ dbCallInfo = <<>>
  /\ dbGrants = <<>>
  /\ sweepPc = "idle"
  /\ memCallInfo = <<>>

(* server.js replaces the exports of utils/tokenStorage by async wrappers  *)
(* when TOKEN_STORAGE=db; routes/oauth.js calls them without await, so     *)
(* every call returns a pending Promise, which is truthy and has none of   *)
(* the fields of the record.                                               *)
Undefined == "undefined"

(* POST /oauth/token, grant_type=refresh_token, with the persistent        *)
(* backend.  getRefreshToken and getAccessToken return Promises, so both   *)
(* null tests pass; generateAccessToken is called with undefined user and  *)
(* client (jwt.sign either signs such a payload or throws: signThrows);    *)
(* storeAccessToken and revokeRefreshToken are started and not awaited;    *)
(* `refreshData.scopes.join` throws a TypeError, which Express answers     *)
(* with 500.  The calls started run on as tasks.                           *)
DbModeTokenRefresh(refresh_token, signThrows) ==
  /\ Len(dbGrants) < MaxGrants
  /\ IF refresh_token = 0
     THEN /\ dbGrants' = Append(dbGrants, [presented |-> 0, resolves |-> FALSE,
                                           status |-> 400, error |-> "invalid_request"])
          /\ UNCHANGED dbTasks
     ELSE /\ dbGrants' = Append(dbGrants,
                               [presented |-> refresh_token,
                                resolves |-> Has(dbRefreshTokens, refresh_token),
                                status |-> 500, error |-> "TypeError"])
          /\ dbTasks' = dbTasks
               \o <<Task("getRefreshToken", refresh_token, <<>>, FALSE),
                    Task("getAccessToken", Undefined, <<>>, FALSE)>>
               \o (IF signThrows THEN <<>>
                   ELSE <<Task("storeAccessToken", "jwt",
                               <<MaxRefresh + 1 + Len(dbGrants), NoExpiry, NoParam, NoParam>>,
                               FALSE),
                          Task("revokeRefreshToken", refresh_token, <<>>, FALSE)>>)
  /\ UNCHANGED <<dbAccessTokens, dbRefreshTokens, dbCallInfo, sweepPc>>

(* The same calls on the in-memory backend (synchronous).                  *)
MemStoreAccessToken(token, refreshToken, expiresAt) ==
  /\ SetMemStore(storeAccessToken(MemStore, token, refreshToken, "k1", "u1", "c1",
                                  <<"mcp:read">>, expiresAt, now))
  /\ memCallInfo' = <<>>

MemGetAccessToken(token) ==
  /\ LET r == getAccessToken(MemStore, token, now) IN
       /\ SetMemStore(r.store)
       /\ memCallInfo' = <<[fn |-> "getAccessToken", token |-> token,
                            expired |-> Has(tokenStore, token)
                                        /\ tokenStore[token].expiresAt # NoExpiry
                                        /\ now > tokenStore[token].expiresAt,
                            returned |-> TRUE, found |-> r.found]>>


(* One store operation on the in-memory backend; memCallInfo keeps what   *)
(* it returned (found: the call returned a record).                        *)
MemCall(fn, token, args) ==
  LET S == MemStore
      g == getAccessToken(S, token, now)
      r == CASE fn = "storeAccessToken" ->
                  [found |-> FALSE,
                   store |-> storeAccessToken(S, token, args[1], args[3], args[4], "c1",
                                              <<"mcp:read">>, args[2], now)]
             [] fn = "getAccessToken" -> [found |-> g.found, store |-> g.store]
             [] fn = "deleteToken" -> [found |-> FALSE, store |-> deleteToken(S, token)]
             [] fn = "getRefreshToken" ->
                  [found |-> getRefreshToken(S, token).found, store |-> S]
             [] fn = "revokeRefreshToken" ->
                  [found |-> FALSE, store |-> revokeRefreshToken(S, token)]
  IN /\ SetMemStore(r.store)
     /\ memCallInfo' = <<[fn |-> fn, token |-> token, expired |-> FALSE,
                          returned |-> TRUE, found |-> r.found]>>

(* The same operation handed to both backends.                             *)
BothCall(fn, token, args) == DbCall(fn, token, args) /\ MemCall(fn, token, args)

----------------------------------------------------------------------------
(* server/routes/oauth.js: GET /oauth/authorize and                        *)
(* GET /oauth/openrouter-callback.                                         *)

(* The redirect URIs a client was registered with (registerClient keeps    *)
(* clientMetadata.redirect_uris).                                          *)
redirect_uris(clientId) == {"https://a/cb", "https://b/cb"}

(* clientRegistry.js: getClient answers the client or null.                *)
getClient(clientId) == Has(clients, clientId)

(* scope ? scope.split(" ").filter(s => s) : ["mcp:read", "mcp:write"],    *)
(* for a scope parameter that names one scope.                             *)
ParseScope(scope) == IF scope = NoParam THEN <<"mcp:read", "mcp:write">> ELSE <<scope>>

(* The query strings of GET /oauth/authorize.                              *)
AuthorizeQueries ==
  [client_id : {NoParam, "c1", "c9"},
   redirect_uri : {NoParam, "https://a/cb", "https://x/cb"},
   response_type : {NoParam, "code", "token"},
   scope : {NoParam, "mcp:read"},
   code_challenge : {NoParam, "h1"},
   code_challenge_method : {NoParam, "S256", "plain"},
   state : {NoParam, "xyz"}]

(* The query strings of GET /oauth/openrouter-callback (state 0: absent)   *)
(* and what the upstream exchange does: it returns {userId, apiKey} or     *)
(* throws (<<NoParam, NoParam>>).                                          *)
CallbackQueries ==
  [code : {NoParam, "oc"}, state : 0..MaxAuths, error : {NoParam, "denied"}]
Exchanges == Logins \cup {<<NoParam, NoParam>>}

(* GET /oauth/authorize: the answer and the pending exchanges it leaves.   *)
(* A request that passes the five checks reaches the object literal of     *)
(* openRouterAuths.set(orState, {... codeChallenge, ...}); the identifier  *)
(* codeChallenge is declared in no scope of the file (generatePKCE's       *)
(* result is bound to orCodeChallenge), so evaluating the literal throws   *)
(* ReferenceError before set() runs and the error middleware of server.js  *)
(* answers 500.                                                            *)
authorize(A, q) ==
  IF q.client_id = NoParam \/ q.redirect_uri = NoParam \/ q.response_type = NoParam
       \/ q.code_challenge = NoParam
  THEN [status |-> 400, error |-> "invalid_request", auths |-> A, passed |-> FALSE]
  ELSE IF q.response_type # "code"
  THEN [status |-> 400, error |-> "unsupported_response_type", auths |-> A, passed |-> FALSE]
  ELSE IF q.code_challenge_method # NoParam /\ q.code_challenge_method # "S256"
  THEN [status |-> 400, error |-> "invalid_request", auths |-> A, passed |-> FALSE]
  ELSE IF ~getClient(q.client_id)
  THEN [status |-> 400, error |-> "invalid_client", auths |-> A, passed |-> FALSE]
  ELSE IF q.redirect_uri \notin redirect_uris(q.client_id)
  THEN [status |-> 400, error |-> "invalid_request", auths |-> A, passed |-> FALSE]
  ELSE [status |-> 500, error |-> "Internal Server Error", auths |-> A, passed |-> TRUE]

Authorize(q) ==
  LET r == authorize(openRouterAuths, q) IN
    /\ openRouterAuths' = r.auths
    /\ authzReq' = [route |-> "authorize", query |-> q]
    /\ authzResp' = [status |-> r.status, error |-> r.error, passed |-> r.passed,
                     location |-> NoParam, code |-> 0, state |-> NoParam, authData |-> <<>>]
    /\ UNCHANGED oauthVars

(* router.get("/openrouter-callback") when exchangeCodeForApiKey throws or  *)
(* is not reached: the answer and the pending exchanges A afterwards.      *)
CallbackExchangeFailed(A, q) ==
  IF q.error # NoParam
  THEN [auths |-> A,
        resp |-> IF Has(A, q.state)
                 THEN [status |-> 302, error |-> "access_denied", passed |-> FALSE,
                       location |-> A[q.state].redirectUri, code |-> 0,
                       state |-> A[q.state].state, authData |-> <<A[q.state]>>]
                 ELSE [status |-> 400, error |-> "access_denied", passed |-> FALSE,
                       location |-> NoParam, code |-> 0, state |-> NoParam,
                       authData |-> <<>>]]
  ELSE IF q.code = NoParam \/ q.state = 0 \/ ~Has(A, q.state)
  THEN [auths |-> A,
        resp |-> [status |-> 400, error |-> "invalid_request", passed |-> FALSE,
                  location |-> NoParam, code |-> 0, state |-> NoParam, authData |-> <<>>]]
  ELSE [auths |-> Del(A, q.state),
        resp |-> [status |-> 302, error |-> "server_error", passed |-> TRUE,
                  location |-> A[q.state].redirectUri, code |-> 0,
                  state |-> A[q.state].state, authData |-> <<A[q.state]>>]]

(* The callback reaches storeAuthorizationCode: no error parameter, code   *)
(* and state present, the state pending in A, the upstream exchange        *)
(* answered with a key.                                                    *)
CallbackAccepts(A, q, exch) ==
  /\ q.error = NoParam /\ q.code # NoParam /\ q.state # 0
  /\ Has(A, q.state)
  /\ exch[2] # NoParam

(* GET /oauth/openrouter-callback.  The handler deletes the pending        *)
(* exchange, awaits the upstream exchange and then stores the code; what   *)
(* runs after the await reads only the handler's own authData and the      *)
(* code it mints, so the handler is one step.                              *)
OpenRouterCallbackRoute(q, exch) ==
  /\ authzReq' = [route |-> "callback", query |-> q]
  /\ IF CallbackAccepts(openRouterAuths, q, exch)
     THEN LET authData == openRouterAuths[q.state] IN
          /\ openRouterAuths' = Del(openRouterAuths, q.state)
          /\ OpenRouterCallback(exch[1], exch[2], authData.clientId,
                                authData.redirectUri, authData.codeChallenge,
                                authData.scopes)
          /\ authzResp' = [status |-> 302, error |-> NoParam, passed |-> TRUE,
                           location |-> authData.redirectUri, code |-> nextCode + 1,
                           state |-> authData.state, authData |-> <<authData>>]
     ELSE LET r == CallbackExchangeFailed(openRouterAuths, q) IN
          /\ authzResp' = r.resp
          /\ openRouterAuths' = r.auths
          /\ UNCHANGED oauthVars

InitAuthz ==
  /\ openRouterAuths = EmptyMap
  /\ authzReq = [route |-> "none", query |-> <<>>]
  /\ authzResp = [status |-> 0, error |-> NoParam, passed |-> FALSE, location |-> NoParam,
                  code |-> 0, state |-> NoParam, authData |-> <<>>]

----------------------------------------------------------------------------
InitAux ==
  /\ origin = EmptyMap
  /\ clientRecords = EmptyMap
  /\ registration = <<>>

Init == InitOAuth /\ InitBridge /\ InitBackends /\ InitAuthz /\ InitAux

(* The token endpoint with the in-memory store.                            *)
NextOAuth ==
  \/ \E l \in Logins, c \in ClientIds, r \in RedirectUris,
        h \in Challenges, s \in ScopeLists :
        OpenRouterCallback(l[1], l[2], c, r, h, s) /\ UNCHANGED <<bridgeVars, dbVars, memCallInfo, authzVars, auxVars, regVars>>
  \/ \E code \in 1..MaxCodes :
        CodeTimerFire(code) /\ UNCHANGED <<bridgeVars, dbVars, memCallInfo, authzVars, auxVars, regVars>>
  \/ \E q \in CodeRequests, cs \in ClientCredentials :
        TokenAuthorizationCode(q[1], q[2], cs[1], cs[2], q[3])
          /\ UNCHANGED <<bridgeVars, dbVars, memCallInfo, authzVars, auxVars, regVars>>
  \/ \E rt \in 0..MaxRefresh :
        TokenRefresh(rt) /\ UNCHANGED <<bridgeVars, dbVars, memCallInfo, authzVars, auxVars, regVars>>
  \/ TokenUnsupported /\ UNCHANGED <<bridgeVars, dbVars, memCallInfo, authzVars, auxVars, regVars>>
  \/ \E tk \in issued : BearerRequest(tk) /\ UNCHANGED <<bridgeVars, dbVars, memCallInfo, authzVars, auxVars, regVars>>
  \/ CleanupExpiredTokens /\ UNCHANGED <<bridgeVars, dbVars, memCallInfo, authzVars, auxVars, regVars>>
  \/ \E d \in TickSteps : Tick(d) /\ UNCHANGED <<bridgeVars, dbVars, memCallInfo, authzVars, auxVars, regVars>>

SpecOAuth == Init /\ [][NextOAuth]_vars

(* The token endpoint and the bearer middleware over the lifetime of an    *)
(* access token: the clock advances by ACCESS_TOKEN_EXPIRY.                *)
NextOAuthExpiry ==
  \/ \E l \in Logins, c \in ClientIds, r \in RedirectUris,
        h \in Challenges, s \in ScopeLists :
        OpenRouterCallback(l[1], l[2], c, r, h, s) /\ UNCHANGED <<bridgeVars, dbVars, memCallInfo, authzVars, auxVars, regVars>>
  \/ \E q \in CodeRequests, cs \in ClientCredentials :
        TokenAuthorizationCode(q[1], q[2], cs[1], cs[2], q[3]) /\ UNCHANGED <<bridgeVars, dbVars, memCallInfo, authzVars, auxVars, regVars>>
  \/ \E rt \in 0..MaxRefresh : TokenRefresh(rt) /\ UNCHANGED <<bridgeVars, dbVars, memCallInfo, authzVars, auxVars, regVars>>
  \/ \E tk \in issued : BearerRequest(tk) /\ UNCHANGED <<bridgeVars, dbVars, memCallInfo, authzVars, auxVars, regVars>>
  \/ \E req \in {<<>>} \cup {<<tk>> : tk \in issued} :
        IntrospectRequest(req) /\ UNCHANGED <<bridgeVars, dbVars, memCallInfo, authzVars, auxVars, regVars>>
  \/ CleanupExpiredTokens /\ UNCHANGED <<bridgeVars, dbVars, memCallInfo, authzVars, auxVars, regVars>>
  \/ Tick(ACCESS_TOKEN_EXPIRY) /\ UNCHANGED <<bridgeVars, dbVars, memCallInfo, authzVars, auxVars, regVars>>

SpecOAuthExpiry == Init /\ [][NextOAuthExpiry]_vars

(* Grants of several logins, among them two logins of one user to whom     *)
(* the upstream exchange returned different API keys, with the login that  *)
(* each chain of tokens began with.                                        *)
ChainLogins == {<<"u1", "k1">>, <<"u1", "k3">>, <<"u2", "k2">>}

ChainCodeGrant(code, redirect_uri, code_verifier) ==
  /\ TokenAuthorizationCode(code, redirect_uri, NoParam, NoParam, code_verifier)
  /\ origin' = IF AuthorizationCodeGrant(MemStore, code, redirect_uri, NoParam, NoParam,
                                         code_verifier, nextRefresh + 1, now).status = 200
               THEN Put(origin, nextRefresh + 1,
                        <<authorizationCodes[code].userId, authorizationCodes[code].apiKey>>)
               ELSE origin

ChainRefresh(refresh_token) ==
  /\ TokenRefresh(refresh_token)
  /\ origin' = IF RefreshTokenGrant(MemStore, refresh_token, nextRefresh + 1, now).status = 200
               THEN Put(origin, nextRefresh + 1, origin[refresh_token])
               ELSE origin

NextChain ==
  \/ \E l \in ChainLogins, c \in ClientIds, s \in ScopeLists :
        OpenRouterCallback(l[1], l[2], c, "https://a/cb", "h1", s)
          /\ UNCHANGED <<bridgeVars, dbVars, memCallInfo, authzVars, auxVars, regVars>>
  \/ \E code \in 1..MaxCodes :
        ChainCodeGrant(code, "https://a/cb", "v1")
          /\ UNCHANGED <<bridgeVars, dbVars, memCallInfo, authzVars, regVars>>
  \/ \E rt \in 1..MaxRefresh :
        ChainRefresh(rt) /\ UNCHANGED <<bridgeVars, dbVars, memCallInfo, authzVars, regVars>>
  \/ Tick(1) /\ UNCHANGED <<bridgeVars, dbVars, memCallInfo, authzVars, auxVars, regVars>>

SpecChain == Init /\ [][NextChain]_vars

(* utils/clientRegistry.js: dynamic client registration.  A metadata field *)
(* that is NoParam is a key the request body does not have.                *)
ClientMetadata ==
  [client_id : {NoParam, "c1", "mine"}, client_secret : {NoParam, "known"},
   redirect_uris : {NoParam, "https://a/cb"}]

(* crypto.randomBytes(16) and crypto.randomBytes(32): fresh values.        *)
RandomClientId(n) == <<"r1", "r2", "r3", "r4">>[n]
RandomClientSecret(n) == <<"x1", "x2", "x3", "x4">>[n]

(* { ...defaults, ...clientMetadata }: a key of the metadata replaces the  *)
(* field of the same name.                                                 *)
Spread(default, given) == IF given # NoParam THEN given ELSE default

(* registerClient(clientMetadata), with the n-th random values.            *)
registerClient(C, R, clientMetadata, n) ==
  LET clientId == RandomClientId(n)
      clientSecret == RandomClientSecret(n)
      client == [client_id |-> Spread(clientId, clientMetadata.client_id),
                 client_secret |-> Spread(clientSecret, clientMetadata.client_secret),
                 redirect_uris |-> Spread("", clientMetadata.redirect_uris)]
  IN [clients |-> Put(C, clientId, client.client_secret),
      records |-> Put(R, clientId, [client_id |-> client.client_id,
                                    redirect_uris |-> client.redirect_uris]),
      response |-> [client_id |-> clientId, client_secret |-> clientSecret,
                    redirect_uris |-> client.redirect_uris]]

RegisterClient(clientMetadata) ==
  /\ Cardinality(DOMAIN clientRecords) < MaxClients
  /\ LET r == registerClient(clients, clientRecords, clientMetadata,
                             Cardinality(DOMAIN clientRecords) + 1)
     IN /\ clients' = r.clients
        /\ clientRecords' = r.records
        /\ registration' = <<[metadata |-> clientMetadata, response |-> r.response]>>
  /\ UNCHANGED <<now, ticks, tokenStore, refreshTokenStore, userTokenMap,
                 authorizationCodes, codeTimers, nextCode, nextRefresh, issued, consumed,
                 rotated, lastResp>>

NextRegistry ==
  \E m \in ClientMetadata :
    RegisterClient(m) /\ UNCHANGED <<bridgeVars, dbVars, memCallInfo, authzVars, auxVars>>

SpecRegistry == Init /\ [][NextRegistry]_vars

(* The authorization endpoint and the upstream callback.                   *)
NextAuthorize ==
  \/ \E q \in AuthorizeQueries :
        Authorize(q) /\ UNCHANGED <<bridgeVars, dbVars, memCallInfo, auxVars, regVars>>
  \/ \E q \in CallbackQueries, x \in Exchanges :
        OpenRouterCallbackRoute(q, x) /\ UNCHANGED <<bridgeVars, dbVars, memCallInfo, auxVars, regVars>>

SpecAuthorize == Init /\ [][NextAuthorize]_vars

(* The two backends driven by the same sequence of store operations, on   *)
(* records without expiry; an operation starts when the one before it has  *)
(* completed on the persistent backend.                                    *)
NextPair ==
  \/ \E sc \in StoreCalls :
        BothCall("storeAccessToken", sc[1], <<sc[2], NoExpiry, "k1", "u1">>)
          /\ UNCHANGED <<oauthRest, bridgeVars, authzVars, auxVars, regVars>>
  \/ \E fn \in {"getAccessToken", "deleteToken"}, tk \in Tokens :
        BothCall(fn, tk, <<>>) /\ UNCHANGED <<oauthRest, bridgeVars, authzVars, auxVars, regVars>>
  \/ \E fn \in {"getRefreshToken", "revokeRefreshToken"} :
        BothCall(fn, 1, <<>>) /\ UNCHANGED <<oauthRest, bridgeVars, authzVars, auxVars, regVars>>
  \/ \E i \in DOMAIN dbTasks : DbStoreAccessRow(i) /\ UNCHANGED <<oauthVars, bridgeVars, memCallInfo, authzVars, auxVars, regVars>>
  \/ \E i \in DOMAIN dbTasks : DbStoreRefreshRow(i) /\ UNCHANGED <<oauthVars, bridgeVars, memCallInfo, authzVars, auxVars, regVars>>
  \/ \E i \in DOMAIN dbTasks : DbGetAccessTokenSelect(i) /\ UNCHANGED <<oauthVars, bridgeVars, memCallInfo, authzVars, auxVars, regVars>>
  \/ \E i \in DOMAIN dbTasks : DbDeleteTokenLookup(i) /\ UNCHANGED <<oauthVars, bridgeVars, memCallInfo, authzVars, auxVars, regVars>>
  \/ \E i \in DOMAIN dbTasks : DbDeleteTokenRow(i) /\ UNCHANGED <<oauthVars, bridgeVars, memCallInfo, authzVars, auxVars, regVars>>
  \/ \E i \in DOMAIN dbTasks : DbDeleteRefreshRow(i) /\ UNCHANGED <<oauthVars, bridgeVars, memCallInfo, authzVars, auxVars, regVars>>
  \/ \E i \in DOMAIN dbTasks : DbGetRefreshTokenSelect(i) /\ UNCHANGED <<oauthVars, bridgeVars, memCallInfo, authzVars, auxVars, regVars>>
  \/ \E i \in DOMAIN dbTasks : DbRevokeLookup(i) /\ UNCHANGED <<oauthVars, bridgeVars, memCallInfo, authzVars, auxVars, regVars>>
  \/ \E i \in DOMAIN dbTasks : DbRevokeDeleteToken(i) /\ UNCHANGED <<oauthVars, bridgeVars, memCallInfo, authzVars, auxVars, regVars>>
  \/ \E i \in DOMAIN dbTasks : DbRevokeDeleteRefresh(i) /\ UNCHANGED <<oauthVars, bridgeVars, memCallInfo, authzVars, auxVars, regVars>>

SpecPair == Init /\ [][NextPair]_vars

(* The session registry and the protocol bridge; the subprocess output     *)
(* arrives in chunks of whole lines.                                       *)
NextBridge ==
  \/ \E req \in PostRequests : PostMcp(req) /\ UNCHANGED <<oauthVars, dbVars, memCallInfo, authzVars, auxVars, regVars>>
  \/ \E h \in 1..MaxCalls : RequestTimeout(h) /\ UNCHANGED <<oauthVars, dbVars, memCallInfo, authzVars, auxVars, regVars>>
  \/ \E p \in 1..MaxProcs : ToolsChangedTimer(p) /\ UNCHANGED <<oauthVars, dbVars, memCallInfo, authzVars, auxVars, regVars>>
  \/ \E p \in 1..MaxProcs, data \in LineChunks : StdoutData(p, data) /\ UNCHANGED <<oauthVars, dbVars, memCallInfo, authzVars, auxVars, regVars>>
  \/ \E p \in 1..MaxProcs : ProcessExit(p) /\ UNCHANGED <<oauthVars, dbVars, memCallInfo, authzVars, auxVars, regVars>>
  \/ \E p \in 1..MaxProcs : IdleTimeout(p) /\ UNCHANGED <<oauthVars, dbVars, memCallInfo, authzVars, auxVars, regVars>>
  \/ \E p \in 1..MaxProcs : LifetimeTimeout(p) /\ UNCHANGED <<oauthVars, dbVars, memCallInfo, authzVars, auxVars, regVars>>
  \/ SessionSweep /\ UNCHANGED <<oauthVars, dbVars, memCallInfo, authzVars, auxVars, regVars>>
  \/ Advance /\ UNCHANGED <<oauthVars, dbVars, memCallInfo, authzVars, auxVars, regVars>>

SpecBridge == Init /\ [][NextBridge]_vars

(* The bridge when timers that are due eventually fire and the clock       *)
(* reaches the next deadline.                                              *)
SpecBridgeTimers ==
  /\ SpecBridge
  /\ \A h \in 1..MaxCalls : WF_vars(RequestTimeout(h) /\ UNCHANGED <<oauthVars, dbVars, memCallInfo, authzVars, auxVars, regVars>>)
  /\ \A p \in 1..MaxProcs : WF_vars(IdleTimeout(p) /\ UNCHANGED <<oauthVars, dbVars, memCallInfo, authzVars, auxVars, regVars>>)
  /\ \A p \in 1..MaxProcs : WF_vars(LifetimeTimeout(p) /\ UNCHANGED <<oauthVars, dbVars, memCallInfo, authzVars, auxVars, regVars>>)
  /\ WF_vars(Advance /\ UNCHANGED <<oauthVars, dbVars, memCallInfo, authzVars, auxVars, regVars>>)

(* The output stream of the subprocess, cut into chunks at any character.  *)
NextStream ==
  \/ \E req \in StreamRequests : PostMcp(req) /\ UNCHANGED <<oauthVars, dbVars, memCallInfo, authzVars, auxVars, regVars>>
  \/ \E p \in 1..MaxProcs, data \in Chunks : StdoutData(p, data) /\ UNCHANGED <<oauthVars, dbVars, memCallInfo, authzVars, auxVars, regVars>>
  \/ \E p \in 1..MaxProcs : ProcessExit(p) /\ UNCHANGED <<oauthVars, dbVars, memCallInfo, authzVars, auxVars, regVars>>

SpecStream == Init /\ [][NextStream]_vars

(* The streaming connections of a session.                                 *)
NextSse ==
  \/ \E u \in Principals, hd \in SessionHeaders : GetMcp(u, hd) /\ UNCHANGED <<oauthVars, dbVars, memCallInfo, authzVars, auxVars, regVars>>
  \/ \E c \in 1..MaxSse : SseClose(c) /\ UNCHANGED <<oauthVars, dbVars, memCallInfo, authzVars, auxVars, regVars>>
  \/ \E req \in StreamRequests : PostMcp(req) /\ UNCHANGED <<oauthVars, dbVars, memCallInfo, authzVars, auxVars, regVars>>
  \/ \E p \in 1..MaxProcs, data \in LineChunks : StdoutData(p, data) /\ UNCHANGED <<oauthVars, dbVars, memCallInfo, authzVars, auxVars, regVars>>
  \/ \E p \in 1..MaxProcs : ProcessExit(p) /\ UNCHANGED <<oauthVars, dbVars, memCallInfo, authzVars, auxVars, regVars>>

SpecSse == Init /\ [][NextSse]_vars

(* Calls on the persistent backend, one at a time, with its sweep.         *)
NextDb ==
  \/ \E sc \in StoreCalls, e \in {NoExpiry, now + 1} :
        DbCall("storeAccessToken", sc[1], <<sc[2], e, "k1", "u1">>) /\ UNCHANGED <<oauthVars, bridgeVars, memCallInfo, authzVars, auxVars, regVars>>
  \/ \E fn \in {"getAccessToken", "deleteToken"}, tk \in Tokens :
        DbCall(fn, tk, <<>>) /\ UNCHANGED <<oauthVars, bridgeVars, memCallInfo, authzVars, auxVars, regVars>>
  \/ \E fn \in {"getRefreshToken", "revokeRefreshToken"} :
        DbCall(fn, 1, <<>>) /\ UNCHANGED <<oauthVars, bridgeVars, memCallInfo, authzVars, auxVars, regVars>>
  \/ \E i \in DOMAIN dbTasks : DbStoreAccessRow(i) /\ UNCHANGED <<oauthVars, bridgeVars, memCallInfo, authzVars, auxVars, regVars>>
  \/ \E i \in DOMAIN dbTasks : DbStoreRefreshRow(i) /\ UNCHANGED <<oauthVars, bridgeVars, memCallInfo, authzVars, auxVars, regVars>>
  \/ \E i \in DOMAIN dbTasks : DbGetAccessTokenSelect(i) /\ UNCHANGED <<oauthVars, bridgeVars, memCallInfo, authzVars, auxVars, regVars>>
  \/ \E i \in DOMAIN dbTasks : DbGetAccessTokenAfterDelete(i) /\ UNCHANGED <<oauthVars, bridgeVars, memCallInfo, authzVars, auxVars, regVars>>
  \/ \E i \in DOMAIN dbTasks : DbDeleteTokenLookup(i) /\ UNCHANGED <<oauthVars, bridgeVars, memCallInfo, authzVars, auxVars, regVars>>
  \/ \E i \in DOMAIN dbTasks : DbDeleteTokenRow(i) /\ UNCHANGED <<oauthVars, bridgeVars, memCallInfo, authzVars, auxVars, regVars>>
  \/ \E i \in DOMAIN dbTasks : DbDeleteRefreshRow(i) /\ UNCHANGED <<oauthVars, bridgeVars, memCallInfo, authzVars, auxVars, regVars>>
  \/ \E i \in DOMAIN dbTasks : DbGetRefreshTokenSelect(i) /\ UNCHANGED <<oauthVars, bridgeVars, memCallInfo, authzVars, auxVars, regVars>>
  \/ \E i \in DOMAIN dbTasks : DbRevokeLookup(i) /\ UNCHANGED <<oauthVars, bridgeVars, memCallInfo, authzVars, auxVars, regVars>>
  \/ \E i \in DOMAIN dbTasks : DbRevokeDeleteToken(i) /\ UNCHANGED <<oauthVars, bridgeVars, memCallInfo, authzVars, auxVars, regVars>>
  \/ \E i \in DOMAIN dbTasks : DbRevokeDeleteRefresh(i) /\ UNCHANGED <<oauthVars, bridgeVars, memCallInfo, authzVars, auxVars, regVars>>
  \/ DbSweepAccess /\ UNCHANGED <<oauthVars, bridgeVars, memCallInfo, authzVars, auxVars, regVars>>
  \/ DbSweepOrphans /\ UNCHANGED <<oauthVars, bridgeVars, memCallInfo, authzVars, auxVars, regVars>>
  \/ DbSweepCodes /\ UNCHANGED <<oauthVars, bridgeVars, memCallInfo, authzVars, auxVars, regVars>>
  \/ \E d \in TickSteps : Tick(d) /\ UNCHANGED <<bridgeVars, dbVars, memCallInfo, authzVars, auxVars, regVars>>

SpecDb == Init /\ [][NextDb]_vars

(* The token endpoint with the persistent backend: refresh grants arrive   *)
(* while the calls earlier grants started are still running; the rows were *)
(* stored by direct calls.                                                 *)
NextDbRoutes ==
  \/ \E sc \in StoreCalls :
        DbCall("storeAccessToken", sc[1], <<sc[2], NoExpiry, "k1", "u1">>) /\ UNCHANGED <<oauthVars, bridgeVars, memCallInfo, authzVars, auxVars, regVars>>
  \/ \E rt \in 0..1, signThrows \in BOOLEAN :
        DbModeTokenRefresh(rt, signThrows) /\ UNCHANGED <<oauthVars, bridgeVars, memCallInfo, authzVars, auxVars, regVars>>
  \/ \E i \in DOMAIN dbTasks : DbStoreAccessRow(i) /\ UNCHANGED <<oauthVars, bridgeVars, memCallInfo, authzVars, auxVars, regVars>>
  \/ \E i \in DOMAIN dbTasks : DbStoreRefreshRow(i) /\ UNCHANGED <<oauthVars, bridgeVars, memCallInfo, authzVars, auxVars, regVars>>
  \/ \E i \in DOMAIN dbTasks : DbGetAccessTokenSelect(i) /\ UNCHANGED <<oauthVars, bridgeVars, memCallInfo, authzVars, auxVars, regVars>>
  \/ \E i \in DOMAIN dbTasks : DbDeleteTokenLookup(i) /\ UNCHANGED <<oauthVars, bridgeVars, memCallInfo, authzVars, auxVars, regVars>>
  \/ \E i \in DOMAIN dbTasks : DbDeleteTokenRow(i) /\ UNCHANGED <<oauthVars, bridgeVars, memCallInfo, authzVars, auxVars, regVars>>
  \/ \E i \in DOMAIN dbTasks : DbDeleteRefreshRow(i) /\ UNCHANGED <<oauthVars, bridgeVars, memCallInfo, authzVars, auxVars, regVars>>
  \/ \E i \in DOMAIN dbTasks : DbGetRefreshTokenSelect(i) /\ UNCHANGED <<oauthVars, bridgeVars, memCallInfo, authzVars, auxVars, regVars>>
  \/ \E i \in DOMAIN dbTasks : DbRevokeLookup(i) /\ UNCHANGED <<oauthVars, bridgeVars, memCallInfo, authzVars, auxVars, regVars>>
  \/ \E i \in DOMAIN dbTasks : DbRevokeDeleteToken(i) /\ UNCHANGED <<oauthVars, bridgeVars, memCallInfo, authzVars, auxVars, regVars>>
  \/ \E i \in DOMAIN dbTasks : DbRevokeDeleteRefresh(i) /\ UNCHANGED <<oauthVars, bridgeVars, memCallInfo, authzVars, auxVars, regVars>>

SpecDbRoutes == Init /\ [][NextDbRoutes]_vars

(* The same calls on the in-memory backend.                                *)
NextMem ==
  \/ \E sc \in StoreCalls, e \in {NoExpiry, now + 1} :
        MemStoreAccessToken(sc[1], sc[2], e) /\ UNCHANGED <<oauthRest, bridgeVars, dbVars, authzVars, auxVars, regVars>>
  \/ \E tk \in Tokens : MemGetAccessToken(tk) /\ UNCHANGED <<oauthRest, bridgeVars, dbVars, authzVars, auxVars, regVars>>
  \/ CleanupExpiredTokens /\ UNCHANGED <<bridgeVars, dbVars, memCallInfo, authzVars, auxVars, regVars>>
  \/ \E d \in TickSteps : Tick(d) /\ UNCHANGED <<bridgeVars, dbVars, memCallInfo, authzVars, auxVars, regVars>>

SpecMem == Init /\ [][NextMem]_vars

----------------------------------------------------------------------------
(* Properties of the token endpoint (in-memory backend).                   *)

(* C1: an authorization code is single-use.  consumeAuthorizationCode      *)
(* returns a code's record at most once, and once it has, every further    *)
(* call with that code returns null whatever the verifier, so that no      *)
(* token request with the code is answered 200 and every one that reaches  *)
(* the consumption is answered 400 invalid_grant.                          *)
C1_CodeSingleUse ==
  \A code \in 1..MaxCodes :
    /\ consumed[code] <= 1
    /\ consumed[code] >= 1 =>
         \A v \in Verifiers :
           /\ ~consumeAuthorizationCode(MemStore, code, v, now).found
           /\ \A r \in RedirectUris, cs \in ClientCredentials :
                LET g == AuthorizationCodeGrant(MemStore, code, r, cs[1], cs[2], v,
                                                nextRefresh + 1, now)
                IN /\ g.status # 200
                   /\ g.reached => g.status = 400 /\ g.error = "invalid_grant"

(* A code has been consumed and is no longer stored.                       *)
C1_Witness ==
  \E code \in 1..MaxCodes : consumed[code] = 1 /\ ~Has(authorizationCodes, code)

(* C2: for a stored, unexpired code, consumeAuthorizationCode returns the  *)
(* record iff the S256 hash of the verifier equals the stored challenge;   *)
(* on a mismatch the token request is answered 400 invalid_grant and the   *)
(* store is left as it was (no token is issued).                           *)
C2_PkceIff ==
  \A code \in DOMAIN authorizationCodes :
    now <= authorizationCodes[code].expiresAt =>
      \A v \in Verifiers :
        LET c == consumeAuthorizationCode(MemStore, code, v, now)
            ok == S256(v) = authorizationCodes[code].codeChallenge
        IN /\ c.found <=> ok
           /\ c.found => c.data[1] = authorizationCodes[code]
           /\ ~ok => \A r \in RedirectUris, cs \in ClientCredentials :
                LET g == AuthorizationCodeGrant(MemStore, code, r, cs[1], cs[2], v,
                                                nextRefresh + 1, now)
                IN g.reached => /\ g.status = 400 /\ g.error = "invalid_grant"
                                /\ g.access = <<>> /\ g.store = MemStore

(* A code is stored and unexpired after another one has been exchanged.    *)
C2_Witness ==
  /\ \E code \in DOMAIN authorizationCodes : now <= authorizationCodes[code].expiresAt
  /\ \E code \in 1..MaxCodes : consumed[code] = 1
  /\ tokenStore # EmptyMap

(* C3: after a successful refresh_token grant that presented R, linked to  *)
(* access token A, R does not resolve (a further grant with R is answered  *)
(* 400 invalid_grant) and the middleware rejects A.                        *)
C3_RotationRevokesOldPair ==
  /\ \A R \in rotated :
       /\ ~getRefreshToken(MemStore, R).found
       /\ LET g == RefreshTokenGrant(MemStore, R, nextRefresh + 1, now)
          IN g.status = 400 /\ g.error = "invalid_grant"
  /\ (lastResp # <<>> /\ lastResp[1].grant = "refresh_token") =>
       /\ lastResp[1].presented \in rotated
       /\ ~Accepted(lastResp[1].old[1])

(* The last token response answered a refresh_token grant.                 *)
C3_Witness ==
  /\ lastResp # <<>>
  /\ lastResp[1].grant = "refresh_token"
  /\ lastResp[1].presented \in rotated

(* C4: the pair a successful refresh_token grant returns is new and        *)
(* usable: the access token differs from the old one and is accepted by    *)
(* the middleware, the refresh token resolves and can be exchanged.        *)
C4_NewPairUsable ==
  (lastResp # <<>> /\ lastResp[1].grant = "refresh_token") =>
    /\ lastResp[1].access_token # lastResp[1].old[1]
    /\ Accepted(lastResp[1].access_token)
    /\ getRefreshToken(MemStore, lastResp[1].refresh_token).found
    /\ RefreshTokenGrant(MemStore, lastResp[1].refresh_token, nextRefresh + 1, now).status = 200

----------------------------------------------------------------------------
(* Properties of the session registry and the protocol bridge.             *)

(* C5: while a session created for one user exists, a request with the     *)
(* same session id by a different user does not obtain it:                 *)
(* getOrCreateSession throws 'Session belongs to a different user' and     *)
(* changes nothing, POST /mcp answers 401 and writes nothing to the        *)
(* subprocess; every message ever written to a subprocess came from the    *)
(* user its session was created for.                                       *)
C5_OtherUserRejected ==
  /\ \A p \in DOMAIN processes : \A h \in processes[p].stdin :
       calls[h].user.userId = sessionData[p].userId
  /\ \A sid \in DOMAIN activeSessions : \A u \in Principals :
       u.userId # sessionData[activeSessions[sid]].userId =>
         /\ LET got == getOrCreateSession(Bridge, sid, <<u>>, clock) IN
              /\ got.threw
              /\ got.message = "Session belongs to a different user"
              /\ got.W = Bridge
         /\ \A id \in {"1", "2", NoId},
               m \in {"initialize", "tools/call", "notifications/initialized"} :
              LET W == PostMcpHandler(Bridge, [user |-> u, header |-> sid, id |-> id,
                                               method |-> m], clock)
              IN /\ W.calls[Len(W.calls)].res.status = 401
                 /\ W.processes = processes
                 /\ W.sessionData = sessionData
                 /\ W.activeSessions = activeSessions

(* A request was answered 401 while the session it named exists for        *)
(* another user, whose own request was written to the subprocess.          *)
C5_Witness ==
  \E h \in DOMAIN calls :
    /\ calls[h].res.status = 401
    /\ Has(activeSessions, calls[h].sessionId)
    /\ sessionData[activeSessions[calls[h].sessionId]].userId # calls[h].user.userId
    /\ processes[activeSessions[calls[h].sessionId]].stdin # {}

(* C6: with two requests with distinct ids i and j pending on a session,   *)
(* the output line of the response with id j is delivered to the caller of *)
(* j at once (200, body id j), whether or not i is still pending, and the  *)
(* pending entry, the timeout and the response handle of i stay as they    *)
(* are.                                                                    *)
C6_SecondReplyIndependent ==
  \A p \in DOMAIN sessionData :
    \A i, j \in DOMAIN sessionData[p].pendingRequests :
      i # j =>
        LET pending == sessionData[p].pendingRequests
            W == handleResponse(Bridge, p, <<j, "\n">>)
        IN /\ W.calls[pending[j].res].res =
                [headersSent |-> TRUE, status |-> 200, code |-> 0, bodyId |-> j, sent |-> 1]
           /\ W.calls[pending[j].res].timeout = <<>>
           /\ W.calls[pending[i].res] = calls[pending[i].res]
           /\ calls[pending[i].res].timeout # <<>>
           /\ W.sessionData[p].pendingRequests = Del(pending, j)

(* The later of two requests of a session has its reply while the earlier  *)
(* one is still pending with its timeout armed.                            *)
C6_Witness ==
  \E p \in DOMAIN sessionData : \E i \in DOMAIN sessionData[p].pendingRequests :
    \E h \in DOMAIN calls :
      /\ calls[h].session = p
      /\ h > sessionData[p].pendingRequests[i].res
      /\ calls[h].id # i
      /\ calls[h].res.status = 200
      /\ calls[sessionData[p].pendingRequests[i].res].timeout # <<>>
      /\ ~calls[sessionData[p].pendingRequests[i].res].res.headersSent

(* C7: every HTTP caller receives at most one response, and a subprocess   *)
(* reply (status 200) is only ever written to a caller whose request id is *)
(* the id of the reply.                                                    *)
C7_OwnReplyAtMostOnce ==
  \A h \in DOMAIN calls :
    /\ calls[h].res.sent <= 1
    /\ calls[h].res.headersSent <=> calls[h].res.sent = 1
    /\ calls[h].res.status = 200 => calls[h].res.bodyId = calls[h].id

(* Two requests of one session with different ids both have their reply.   *)
C7_Witness ==
  \E h, k \in DOMAIN calls :
    /\ calls[h].session = calls[k].session
    /\ calls[h].id # calls[k].id
    /\ calls[h].res.status = 200 /\ calls[h].res.sent = 1
    /\ calls[k].res.status = 200 /\ calls[k].res.sent = 1

(* C8: a session that no getOrCreateSession call touches for               *)
(* SESSION_IDLE_TIMEOUT does not outlive it: its idle timer is armed for   *)
(* lastActivity + SESSION_IDLE_TIMEOUT and its callback removes the        *)
(* session from the registry and kills the subprocess; once a session id   *)
(* is not registered, the next authenticated request with it gets a new    *)
(* subprocess and a new session record with initialized = false and an     *)
(* empty pending map.                                                      *)
C8_IdleSessionReplaced ==
  /\ \A sid \in DOMAIN activeSessions :
       LET p == activeSessions[sid]
           W == cleanupSession(Bridge, sid, "idle timeout")
       IN /\ sessionData[p].idleTimer = <<sessionData[p].lastActivity + SESSION_IDLE_TIMEOUT>>
          /\ clock - sessionData[p].lastActivity <= SESSION_IDLE_TIMEOUT
          /\ ~Has(W.activeSessions, sid)
          /\ W.processes[p].killed \/ W.processes[p].exited
  /\ \A p \in DOMAIN sessionData :
       sessionData[p].terminated = "idle timeout" =>
         /\ clock - sessionData[p].lastActivity >= SESSION_IDLE_TIMEOUT
         /\ \A sid \in DOMAIN activeSessions : activeSessions[sid] # p
         /\ processes[p].killed \/ processes[p].exited
  /\ \A sid \in {"s1", "dTEtaXA", "dTItaXA"} : \A u \in Principals :
       ~Has(activeSessions, sid) =>
         LET got == getOrCreateSession(Bridge, sid, <<u>>, clock)
             q == Len(processes) + 1
         IN /\ ~got.threw
            /\ got.session = q
            /\ got.W.activeSessions[sid] = q
            /\ ~got.W.sessionData[q].initialized
            /\ got.W.sessionData[q].pendingRequests = EmptyMap
            /\ got.W.processes[q].stdin = {}
            /\ ~got.W.processes[q].killed /\ ~got.W.processes[q].exited

(* A session ended by its idle timeout and the same session id is          *)
(* registered again, with another subprocess.                              *)
C8_Witness ==
  \E p, q \in DOMAIN sessionData :
    /\ p < q
    /\ sessionData[p].terminated = "idle timeout"
    /\ processes[p].killed
    /\ sessionData[q].sessionId = sessionData[p].sessionId
    /\ Has(activeSessions, sessionData[q].sessionId)
    /\ activeSessions[sessionData[q].sessionId] = q
    /\ ~sessionData[q].initialized

(* A complete line that is not empty and that JSON.parse rejects.          *)
NonJsonLine(line) == line # <<>> /\ ~JSONparse(line).ok

RECURSIVE JoinLines(_)
JoinLines(lines) ==
  IF lines = <<>> THEN <<>> ELSE lines[1] \o <<"\n">> \o JoinLines(Tail(lines))

(* The text without its complete non-JSON lines.                           *)
DropNonJson(text) ==
  LET lines == SplitLines(text, 1, <<>>)
      complete == SubSeq(lines, 1, Len(lines) - 1)
  IN JoinLines(SelectSeq(complete, LAMBDA l : ~NonJsonLine(l))) \o lines[Len(lines)]

(* C9: a complete output line that is not valid JSON is dropped.  Whatever *)
(* the chunk and the buffered tail, handleResponse leaves the bridge in    *)
(* the state it reaches on the same text without the non-JSON lines: such  *)
(* a line answers no request, changes no pending entry, timer or flag,     *)
(* ends no session, and the lines after it are processed as they would be  *)
(* without it.  A text whose complete lines are all non-JSON changes       *)
(* nothing but the buffered tail.                                          *)
C9_NonJsonLineDropped ==
  \A p \in DOMAIN sessionData :
    sessionData[p].listenersSetup =>
      \A data \in Chunks :
        LET text == sessionData[p].responseBuffer \o data
            lines == SplitLines(text, 1, <<>>)
            complete == SubSeq(lines, 1, Len(lines) - 1)
            W0 == [Bridge EXCEPT !.sessionData[p].responseBuffer = <<>>]
            W == handleResponse(W0, p, text)
        IN (\E k \in DOMAIN complete : NonJsonLine(complete[k])) =>
             /\ [W EXCEPT !.deliveredAfterNonJson = deliveredAfterNonJson]
                  = handleResponse(W0, p, DropNonJson(text))
             /\ (\A k \in DOMAIN complete : complete[k] = <<>> \/ NonJsonLine(complete[k])) =>
                  W = [W0 EXCEPT !.sessionData[p].responseBuffer = lines[Len(lines)]]

(* A handleResponse call logged a non-JSON line and then delivered the     *)
(* response of a later line.                                               *)
C9_Witness == deliveredAfterNonJson

(* C10 -- getAccessToken(token) on a record whose expiry is in the past    *)
(* returns not-found and deletes the record, so that the token is absent   *)
(* afterwards.  Persistent backend: whenever a getAccessToken call whose   *)
(* SELECT read an expired row has returned, it has answered not-found, it  *)
(* has issued the DELETE for the row, and the row is gone.                 *)
C10_ExpiredLookupDeletes ==
  (/\ dbCallInfo # <<>>
   /\ dbCallInfo[1].fn = "getAccessToken"
   /\ dbCallInfo[1].expired
   /\ dbCallInfo[1].returned)
  => (/\ ~dbCallInfo[1].found
      /\ dbCallInfo[1].deleted
      /\ ~Has(dbAccessTokens, dbCallInfo[1].token))

(* In the persistent backend no lookup that read an expired row ever       *)
(* issues the DELETE: deleteToken looks the token up again first, and      *)
(* that lookup calls deleteToken again.                                    *)
DbExpiredLookupIssuesNoDelete ==
  (dbCallInfo # <<>> /\ dbCallInfo[1].fn = "getAccessToken" /\ dbCallInfo[1].expired)
  => ~dbCallInfo[1].deleted

(* The in-memory half of C10: a lookup of an expired record answers        *)
(* not-found and removes the record.                                       *)
MemExpiredLookupDeletes ==
  (memCallInfo # <<>> /\ memCallInfo[1].expired)
  => (/\ ~memCallInfo[1].found
      /\ ~Has(tokenStore, memCallInfo[1].token))

MemExpiredLookupSeen == memCallInfo # <<>> /\ memCallInfo[1].expired


(* C11 -- a bearer access token whose expiry time has passed (the exp of   *)
(* the issued JWT) is rejected by verifyBearerToken: no principal is       *)
(* attached and the protected handler does not run.                        *)
C11_ExpiredJwtRejected ==
  \A tk \in issued : now >= tk.exp => ~Accepted(tk)

(* C12 -- a bearer token that verifies as a JWT but has no record in the   *)
(* token store is rejected by verifyBearerToken with 401: no principal is  *)
(* attached and next() is not called.                                      *)
C12_JwtWithoutRecordRejected ==
  \A tk \in issued :
    (verifyAccessToken(tk, now) /\ ~Has(tokenStore, tk)) =>
      LET r == verifyBearerToken(MemStore, tk, now)
      IN ~r.ok /\ r.user = <<>> /\ r.message = "Token not found in storage"
               /\ r.store = MemStore

(* An issued token that still verifies as a JWT has lost its record.       *)
C12_Witness ==
  \E tk \in issued : verifyAccessToken(tk, now) /\ ~Has(tokenStore, tk)

C14_OneRefreshGrantWins ==
  /\ \A g \in DOMAIN dbGrants :
       dbGrants[g].resolves =>
         \/ dbGrants[g].status = 200
         \/ dbGrants[g].status = 400 /\ dbGrants[g].error = "invalid_grant"
  /\ \A g1, g2 \in DOMAIN dbGrants :
       (g1 # g2 /\ dbGrants[g1].presented = dbGrants[g2].presented
          /\ dbGrants[g1].status = 200) => dbGrants[g2].status # 200

(* The request satisfies the four conditions of the authorization          *)
(* endpoint.                                                               *)
ValidAuthorize(q) ==
  /\ q.response_type = "code"
  /\ q.code_challenge_method = "S256"
  /\ getClient(q.client_id)
  /\ q.redirect_uri \in redirect_uris(q.client_id)

(* C15: GET /oauth/authorize stores a pending exchange and redirects only  *)
(* when response_type is "code", code_challenge_method is "S256", the      *)
(* client is registered and redirect_uri is in its list; every other       *)
(* request is answered 400 and stores nothing.                             *)
C15_AuthorizeValidates ==
  authzReq.route = "authorize" =>
    /\ (authzResp.status = 302 \/ openRouterAuths # EmptyMap) => ValidAuthorize(authzReq.query)
    /\ ~ValidAuthorize(authzReq.query) =>
         authzResp.status = 400 /\ openRouterAuths = EmptyMap

(* C16: a GET /oauth/authorize with valid parameters stores a pending      *)
(* exchange that holds what the client presented and answers 302; the      *)
(* code minted by a successful callback and the redirect carry the         *)
(* client's own client id, redirect_uri, scopes, challenge and state.      *)
C16_ValidAuthorizeStoresPending ==
  /\ (authzReq.route = "authorize" /\ ValidAuthorize(authzReq.query)
        /\ authzReq.query.code_challenge # NoParam) =>
       /\ authzResp.status = 302
       /\ \E n \in DOMAIN openRouterAuths :
            /\ openRouterAuths[n].clientId = authzReq.query.client_id
            /\ openRouterAuths[n].redirectUri = authzReq.query.redirect_uri
            /\ openRouterAuths[n].codeChallenge = authzReq.query.code_challenge
            /\ openRouterAuths[n].scopes = ParseScope(authzReq.query.scope)
            /\ openRouterAuths[n].state = authzReq.query.state
  /\ (authzReq.route = "callback" /\ authzResp.code # 0) =>
       LET c == authorizationCodes[authzResp.code]
           d == authzResp.authData[1]
       IN /\ c.clientId = d.clientId /\ c.redirectUri = d.redirectUri
          /\ c.scopes = d.scopes /\ c.codeChallenge = d.codeChallenge
          /\ authzResp.location = d.redirectUri /\ authzResp.state = d.state

(* C17: POST /oauth/introspect answers 200 for every token, and            *)
(* {active: false} when the token neither verifies nor resolves in the     *)
(* store and when the token has expired.                                   *)
C17_IntrospectInactive ==
  \A tk \in issued :
    LET r == introspect(MemStore, <<tk>>, now) IN
      /\ r.status = 200
      /\ (~verifyAccessToken(tk, now) /\ ~Has(tokenStore, tk)) => ~r.active
      /\ now >= tk.exp => ~r.active

(* The timeout of call h is armed and due and h has not been answered.     *)
TimeoutDue(h) ==
  /\ calls[h].id # NoId
  /\ calls[h].timeout # <<>>
  /\ clock >= calls[h].timeout[1]
  /\ ~calls[h].res.headersSent

(* What the timeout callback of call h leaves: h alone is answered 408     *)
(* with code -32001 and loses its entry; every other call and every other  *)
(* entry of the session is as before.                                      *)
TimeoutScoped(h) ==
  LET W == responseTimeout(Bridge, h)
      p == calls[h].session
      pending == sessionData[p].pendingRequests
  IN /\ W.calls[h].res = [headersSent |-> TRUE, status |-> 408, code |-> -32001,
                          bodyId |-> calls[h].id, sent |-> 1]
     /\ \A k \in DOMAIN calls \ {h} : W.calls[k] = calls[k]
     /\ \A i \in DOMAIN pending :
          pending[i].res # h =>
            /\ Has(W.sessionData[p].pendingRequests, i)
            /\ W.sessionData[p].pendingRequests[i] = pending[i]
     /\ \A i \in DOMAIN W.sessionData[p].pendingRequests :
          W.sessionData[p].pendingRequests[i].res # h

(* C18: when the timeout of a pending request fires, only the caller of    *)
(* that request receives the JSON-RPC error -32001 and only its pending    *)
(* entry is removed; every other pending request of the session keeps its  *)
(* entry, its timeout and its open response.                               *)
C18_TimeoutScoped ==
  \A h \in DOMAIN calls : TimeoutDue(h) => TimeoutScoped(h)

(* The same for a request that still owns the entry of its id.             *)
TimeoutScopedForEntryOwner ==
  \A h \in DOMAIN calls :
    (/\ TimeoutDue(h)
     /\ Has(sessionData[calls[h].session].pendingRequests, calls[h].id)
     /\ sessionData[calls[h].session].pendingRequests[calls[h].id].res = h)
      => TimeoutScoped(h)

(* A request was answered -32001 while another request of its session is   *)
(* pending with its timeout armed and its response open.                   *)
TimeoutWithSiblingSeen ==
  \E h, k \in DOMAIN calls :
    /\ h # k
    /\ calls[h].session = calls[k].session
    /\ calls[h].res.code = -32001
    /\ calls[k].timeout # <<>>
    /\ ~calls[k].res.headersSent
    /\ Has(sessionData[calls[k].session].pendingRequests, calls[k].id)
    /\ sessionData[calls[k].session].pendingRequests[calls[k].id].res = k

(* C19: a POST for a session whose subprocess is killed, has exited or     *)
(* has a stdin that is not writable is answered with the JSON-RPC error    *)
(* -32603 and the session is removed from the registry.                    *)
C19_DeadSessionTornDown ==
  \A sid \in DOMAIN activeSessions : \A u \in Principals : \A id \in {"1", "2"} :
    LET p == activeSessions[sid]
        W == PostMcpHandler(Bridge, [user |-> u, header |-> sid, id |-> id,
                                     method |-> "tools/call"], clock)
    IN (u.userId = sessionData[p].userId /\ (processes[p].killed \/ processes[p].exited)) =>
         /\ W.calls[Len(W.calls)].res.code = -32603
         /\ ~Has(W.activeSessions, sid)

(* The caller of such a POST is answered -32603 in every case.             *)
DeadSessionAnswered ==
  \A sid \in DOMAIN activeSessions : \A u \in Principals : \A id \in {"1", "2"} :
    LET p == activeSessions[sid]
        W == PostMcpHandler(Bridge, [user |-> u, header |-> sid, id |-> id,
                                     method |-> "tools/call"], clock)
    IN (u.userId = sessionData[p].userId /\ (processes[p].killed \/ processes[p].exited)) =>
         /\ W.calls[Len(W.calls)].res.status = 500
         /\ W.calls[Len(W.calls)].res.code = -32603

(* A request was answered -32603 by a session whose subprocess had exited, *)
(* and the session is still registered.                                    *)
DeadSessionKept ==
  \E h \in DOMAIN calls :
    /\ calls[h].res.code = -32603
    /\ calls[h].session # 0
    /\ processes[calls[h].session].exited
    /\ Has(activeSessions, calls[h].sessionId)
    /\ activeSessions[calls[h].sessionId] = calls[h].session

(* Both backends have completed the last operation.                        *)
PairSettled == dbTasks = <<>> /\ dbCallInfo # <<>> /\ memCallInfo # <<>>

(* C20: after every sequence of token-store operations both backends have  *)
(* returned the same result and resolve the same access tokens and the     *)
(* same refresh tokens.                                                    *)
C20_BackendsAgree ==
  PairSettled =>
    /\ dbCallInfo[1].found = memCallInfo[1].found
    /\ {t \in DOMAIN dbAccessTokens : ~DbExpired(dbAccessTokens[t], now)}
         = {t \in DOMAIN tokenStore : getAccessToken(MemStore, t, now).found}
    /\ DOMAIN dbRefreshTokens = DOMAIN refreshTokenStore

(* C21: every stored refresh token references an access token that is in   *)
(* the store, and that access token's refreshToken field references the    *)
(* same refresh token.                                                     *)
C21_PairsLinked ==
  \A R \in DOMAIN refreshTokenStore :
    /\ Has(tokenStore, refreshTokenStore[R].accessToken)
    /\ tokenStore[refreshTokenStore[R].accessToken].refreshToken = R

CleanupReasons ==
  {"idle timeout", "max lifetime reached", "process exited", "process died", "shutdown"}

(* C22: cleanupSession(id) answers every unanswered pending request with   *)
(* the error "Session terminated", empties the pending map, ends the SSE   *)
(* sink, kills the subprocess and removes the registry entry; a further    *)
(* call for the same id changes nothing; no request is answered twice and  *)
(* no subprocess is killed twice, whichever triggers run.                  *)
C22_CleanupOnce ==
  /\ \A sid \in DOMAIN activeSessions : \A r1, r2 \in CleanupReasons :
       LET p == activeSessions[sid]
           sd == sessionData[p]
           W == cleanupSession(Bridge, sid, r1)
       IN /\ \A i \in DOMAIN sd.pendingRequests :
               LET h == sd.pendingRequests[i].res IN
                 IF calls[h].res.headersSent
                 THEN W.calls[h].res = calls[h].res
                 ELSE W.calls[h].res = [headersSent |-> TRUE, status |-> 408, code |-> -32000,
                                        bodyId |-> "null", sent |-> 1]
          /\ W.sessionData[p].pendingRequests = EmptyMap
          /\ sd.sseRes # 0 => W.sseConns[sd.sseRes].writableEnded
          /\ W.processes[p].killed \/ W.processes[p].exited
          /\ ~Has(W.activeSessions, sid)
          /\ cleanupSession(W, sid, r2) = W
  /\ \A h \in DOMAIN calls : calls[h].res.sent <= 1
  /\ \A p \in DOMAIN processes : processes[p].kills <= 1

(* A session with an unanswered pending request was torn down: the request *)
(* was answered "Session terminated", the subprocess was killed once and   *)
(* the session id is not registered.                                       *)
C22_Witness ==
  \E h \in DOMAIN calls :
    /\ calls[h].res.code = -32000 /\ calls[h].res.status = 408 /\ calls[h].res.sent = 1
    /\ calls[h].session # 0
    /\ processes[calls[h].session].kills = 1
    /\ sessionData[calls[h].session].terminated # ""
    /\ ~Has(activeSessions, calls[h].sessionId)

(* C23: once cleanupSession has run for a session, none of its timers is   *)
(* armed: idle timer, lifetime timer, keep-alive intervals, and the         *)
(* timeout and progress interval of every request sent through it.         *)
C23_NoTimerAfterCleanup ==
  \A p \in DOMAIN sessionData :
    sessionData[p].terminated # "" =>
      /\ sessionData[p].idleTimer = <<>>
      /\ sessionData[p].lifetimeTimer = <<>>
      /\ \A c \in DOMAIN sseConns : sseConns[c].session = p => ~sseConns[c].keepAlive
      /\ \A h \in DOMAIN calls :
           calls[h].session = p => calls[h].timeout = <<>> /\ ~calls[h].progressInterval

(* The same, for the timers that cleanupSession can reach: those of the    *)
(* session object and of the entries of its pending map.                   *)
RecordedTimersCleared ==
  \A p \in DOMAIN sessionData :
    sessionData[p].terminated # "" =>
      /\ sessionData[p].idleTimer = <<>>
      /\ sessionData[p].lifetimeTimer = <<>>
      /\ sessionData[p].pendingRequests = EmptyMap

(* A session was torn down while the timeout of a request without id that  *)
(* was sent through it is still armed.                                     *)
IdlessTimeoutLeft ==
  \E h \in DOMAIN calls :
    /\ calls[h].id = NoId
    /\ calls[h].session # 0
    /\ sessionData[calls[h].session].terminated # ""
    /\ calls[h].timeout # <<>>

(* C24: however the subprocess output is cut into chunks, every complete   *)
(* line is processed once and in order: delivering a chunk at once leaves  *)
(* the bridge as delivering it in two pieces does, wherever it is cut.     *)
C24_ChunkingIrrelevant ==
  \A p \in DOMAIN sessionData :
    (sessionData[p].listenersSetup /\ ~processes[p].exited) =>
      \A data \in Chunks : \A k \in 1..(Len(data) - 1) :
        LET whole == handleResponse(Bridge, p, data)
            first == handleResponse(Bridge, p, SubSeq(data, 1, k))
            both == handleResponse(first, p, SubSeq(data, k + 1, Len(data)))
        IN [whole EXCEPT !.deliveredAfterNonJson = FALSE]
             = [both EXCEPT !.deliveredAfterNonJson = FALSE]

(* One stdout chunk completed the response lines of two pending requests   *)
(* and only the first of them was answered.                                *)
SecondLineOfChunkLost ==
  \E p \in DOMAIN sessionData :
    /\ sessionData[p].listenersSetup
    /\ Has(sessionData[p].pendingRequests, "1") /\ Has(sessionData[p].pendingRequests, "2")
    /\ sessionData[p].responseBuffer = <<"1">>
    /\ LET W == handleResponse(Bridge, p, <<"\n", "2", "\n">>)
       IN /\ W.calls[sessionData[p].pendingRequests["1"].res].res.status = 200
          /\ Has(W.sessionData[p].pendingRequests, "2")
          /\ W.sessionData[p].responseBuffer = <<>>

(* C25: after the timeout of a request has answered its caller with        *)
(* -32001, a response line with that id finds no pending entry and is      *)
(* dropped: nothing is written to any caller, no pending request is         *)
(* resolved, the session and its subprocess stay as they are.              *)
C25_LateResponseDropped ==
  \A h \in DOMAIN calls :
    (/\ calls[h].res.code = -32001
     /\ Has(activeSessions, calls[h].sessionId)
     /\ activeSessions[calls[h].sessionId] = calls[h].session
     /\ ~Has(sessionData[calls[h].session].pendingRequests, calls[h].id)
     /\ sessionData[calls[h].session].responseBuffer = <<>>)
      => handleResponse(Bridge, calls[h].session, <<calls[h].id, "\n">>) = Bridge

(* A request timed out, its session is alive and another request of the    *)
(* session is pending when the subprocess can still write the late line.   *)
C25_Witness ==
  \E h, k \in DOMAIN calls :
    /\ calls[h].res.code = -32001 /\ calls[h].res.status = 408
    /\ Has(activeSessions, calls[h].sessionId)
    /\ activeSessions[calls[h].sessionId] = calls[h].session
    /\ ~processes[calls[h].session].exited
    /\ sessionData[calls[h].session].listenersSetup
    /\ ~Has(sessionData[calls[h].session].pendingRequests, calls[h].id)
    /\ calls[k].session = calls[h].session
    /\ Has(sessionData[calls[h].session].pendingRequests, calls[k].id)
    /\ sessionData[calls[h].session].pendingRequests[calls[k].id].res = k
    /\ ~calls[k].res.headersSent

(* C26: a GET or a POST on /mcp by a user other than the one the session   *)
(* with that id belongs to is answered 401 and leaves the session as it    *)
(* is; for a GET, no streaming connection stays open for the caller.       *)
C26_OtherUserGets401 ==
  \A sid \in DOMAIN activeSessions : \A u \in Principals :
    u.userId # sessionData[activeSessions[sid]].userId =>
      /\ LET W == GetMcpHandler(Bridge, u, sid, clock)
             conn == W.sseConns[Len(W.sseConns)]
         IN /\ conn.status = 401
            /\ conn.writableEnded
            /\ W.sessionData = sessionData
            /\ W.processes = processes
            /\ W.activeSessions = activeSessions
      /\ LET W == PostMcpHandler(Bridge, [user |-> u, header |-> sid, id |-> "1",
                                          method |-> "tools/call"], clock)
         IN /\ W.calls[Len(W.calls)].res.status = 401
            /\ W.sessionData = sessionData
            /\ W.processes = processes
            /\ W.activeSessions = activeSessions

(* The same without the answer to the GET: the session is left as it is by *)
(* both handlers and the POST is answered 401.                             *)
OtherUserLeavesSession ==
  \A sid \in DOMAIN activeSessions : \A u \in Principals :
    u.userId # sessionData[activeSessions[sid]].userId =>
      /\ LET W == GetMcpHandler(Bridge, u, sid, clock)
         IN W.sessionData = sessionData /\ W.processes = processes
              /\ W.activeSessions = activeSessions
      /\ LET W == PostMcpHandler(Bridge, [user |-> u, header |-> sid, id |-> "1",
                                          method |-> "tools/call"], clock)
         IN /\ W.calls[Len(W.calls)].res.status = 401
            /\ W.sessionData = sessionData /\ W.processes = processes
            /\ W.activeSessions = activeSessions

(* A GET by another user than the session's was left open with status 200. *)
RejectedStreamOpen ==
  \E c \in DOMAIN sseConns :
    /\ sseConns[c].session = 0
    /\ sseConns[c].status = 200
    /\ ~sseConns[c].writableEnded /\ ~sseConns[c].closed
    /\ \E sid \in DOMAIN activeSessions :
         sessionData[activeSessions[sid]].userId # sseConns[c].user.userId

(* C27: under the default configuration the timeout chosen for an          *)
(* initialize request is strictly greater than the one chosen for a        *)
(* tools/call request, so an initialize request sent after a tools/call    *)
(* request is due after it.                                                *)
C27_InitializeLonger ==
  /\ getTimeoutForMethod("initialize") > getTimeoutForMethod("tools/call")
  /\ \A h, k \in DOMAIN calls :
       (/\ calls[h].method = "initialize" /\ calls[k].method = "tools/call"
        /\ calls[h].timeout # <<>> /\ calls[k].timeout # <<>> /\ h > k)
         => calls[h].timeout[1] > calls[k].timeout[1]

(* C27 as the code has it: the timeout of initialize is                    *)
(* INITIALIZATION_TIMEOUT, that of every other method REQUEST_TIMEOUT, and *)
(* the first is strictly smaller; every armed timeout is due no later than *)
(* its duration from now.                                                  *)
C27_InitializeShorter ==
  /\ getTimeoutForMethod("initialize") = INITIALIZATION_TIMEOUT
  /\ getTimeoutForMethod("tools/call") = REQUEST_TIMEOUT
  /\ getTimeoutForMethod("initialize") < getTimeoutForMethod("tools/call")
  /\ \A h \in DOMAIN calls :
       calls[h].timeout # <<>> =>
         calls[h].timeout[1] <= clock + getTimeoutForMethod(calls[h].method)

(* An initialize request sent after a tools/call request is due before it. *)
C27_Witness ==
  \E h, k \in DOMAIN calls :
    /\ calls[h].method = "initialize" /\ calls[k].method = "tools/call"
    /\ h > k
    /\ calls[h].timeout # <<>> /\ calls[k].timeout # <<>>
    /\ calls[h].timeout[1] < calls[k].timeout[1]

(* Output of the subprocess that holds a notification line: alone, before  *)
(* and after a response line.                                              *)
NotificationChunks ==
  {<<"n", "\n">>, <<"n", "\n", "1", "\n">>, <<"1", "\n", "n", "\n">>}

(* The same output without its notification lines.                         *)
RECURSIVE WithoutNotifications(_)
WithoutNotifications(data) ==
  IF data = <<>> THEN <<>>
  ELSE IF Len(data) >= 2 /\ data[1] = "n" /\ data[2] = "\n"
  THEN WithoutNotifications(SubSeq(data, 3, Len(data)))
  ELSE <<data[1]>> \o WithoutNotifications(Tail(data))

(* The sink of session object p is open.                                   *)
SinkOpen(W, p) ==
  /\ W.sessionData[p].sseRes # 0
  /\ ~W.sseConns[W.sessionData[p].sseRes].writableEnded

(* What handleResponse does with the notification lines of data: the sink, *)
(* when open, has the notification; no other connection and nothing of a   *)
(* closed sink changes; requests, pending entries and timers end as they   *)
(* do without the notification lines.                                      *)
NotificationHandled(W, p, data) ==
  LET W1 == handleResponse(W, p, data)
      W0 == handleResponse(W, p, WithoutNotifications(data))
      c == W.sessionData[p].sseRes
  IN /\ SinkOpen(W, p) =>
          W1.sseConns = [W.sseConns EXCEPT ![c].events = @ \cup {"notifications/message"}]
     /\ ~SinkOpen(W, p) => W1.sseConns = W.sseConns
     /\ W1.sessionData = W0.sessionData
     /\ W1.calls = W0.calls
     /\ W1.processes = W0.processes
     /\ W1.activeSessions = W0.activeSessions

(* C28: a subprocess message with a method and no id is written to the     *)
(* session's SSE sink if one is open at that moment and discarded          *)
(* otherwise; it is not stored, and it never resolves or alters a pending  *)
(* request.                                                                *)
C28_NotificationForwarded ==
  \A p \in DOMAIN sessionData :
    (sessionData[p].listenersSetup /\ ~processes[p].exited /\ sessionData[p].responseBuffer = <<>>)
      => \A data \in NotificationChunks : NotificationHandled(Bridge, p, data)

(* The part of C28 the code keeps: a notification that is not preceded in  *)
(* its chunk by a delivered response is written to the open sink or        *)
(* dropped without trace, and a sink opened afterwards starts empty.       *)
NotificationForwardedUnlessCut ==
  \A p \in DOMAIN sessionData :
    (sessionData[p].listenersSetup /\ ~processes[p].exited /\ sessionData[p].responseBuffer = <<>>)
      => \A data \in NotificationChunks :
           LET W1 == handleResponse(Bridge, p, data) IN
           /\ (data[1] = "n" \/ ~Has(sessionData[p].pendingRequests, "1"))
                => NotificationHandled(Bridge, p, data)
           /\ (~SinkOpen(Bridge, p) /\ Len(sseConns) < MaxSse) =>
                \A u \in Principals :
                  LET W2 == GetMcpHandler(W1, u, "s1", clock) IN
                    W2.sseConns[Len(W2.sseConns)].events = {}

(* A session with an open sink that has received nothing and a pending     *)
(* request 1: the notification behind the response to 1 is not written.    *)
NotificationBehindResponseLost ==
  \E p \in DOMAIN sessionData :
    /\ sessionData[p].listenersSetup /\ ~processes[p].exited
    /\ sessionData[p].responseBuffer = <<>>
    /\ SinkOpen(Bridge, p)
    /\ sseConns[sessionData[p].sseRes].events = {}
    /\ Has(sessionData[p].pendingRequests, "1")
    /\ handleResponse(Bridge, p, <<"1", "\n", "n", "\n">>).sseConns = sseConns

(* A notification reached the open sink of a session with a pending        *)
(* request, which is still pending.                                        *)
NotificationWritten ==
  \E p \in DOMAIN sessionData :
    /\ SinkOpen(Bridge, p)
    /\ "notifications/message" \in sseConns[sessionData[p].sseRes].events
    /\ sessionData[p].pendingRequests # EmptyMap

(* Store S holds nothing the sweep is said to remove at time t.            *)
NothingStale(S, t) ==
  /\ \A tk \in DOMAIN S.tokenStore :
       ~(S.tokenStore[tk].expiresAt # NoExpiry /\ t > S.tokenStore[tk].expiresAt)
  /\ \A code \in DOMAIN S.authorizationCodes : ~(t > S.authorizationCodes[code].expiresAt)
  /\ \A R \in DOMAIN S.refreshTokenStore :
       Has(S.tokenStore, S.refreshTokenStore[R].accessToken)

(* C29: after cleanupExpiredTokens has run, the store holds no access      *)
(* token whose expiresAt is in the past, no authorization code past its    *)
(* expiry and no refresh token whose access token is absent.               *)
C29_SweepLeavesNothingStale ==
  NothingStale(cleanupExpiredTokens(MemStore, now), now)

(* The part of C29 the in-memory sweep keeps: no access token whose        *)
(* expiresAt is in the past is left, and nothing else is touched.          *)
SweepRemovesExpiredAccess ==
  LET S == cleanupExpiredTokens(MemStore, now) IN
    /\ \A tk \in DOMAIN S.tokenStore :
         ~(S.tokenStore[tk].expiresAt # NoExpiry /\ now > S.tokenStore[tk].expiresAt)
    /\ \A tk \in DOMAIN tokenStore :
         (tokenStore[tk].expiresAt = NoExpiry \/ now <= tokenStore[tk].expiresAt)
           => Has(S.tokenStore, tk) /\ S.tokenStore[tk] = tokenStore[tk]
    /\ S.refreshTokenStore = refreshTokenStore
    /\ S.authorizationCodes = authorizationCodes

(* The sweep removes an expired access token and leaves its refresh token. *)
SweepOrphansRefresh ==
  \E tk \in DOMAIN tokenStore :
    LET S == cleanupExpiredTokens(MemStore, now) IN
      /\ tokenStore[tk].expiresAt # NoExpiry /\ now > tokenStore[tk].expiresAt
      /\ ~Has(S.tokenStore, tk)
      /\ \E R \in DOMAIN S.refreshTokenStore : S.refreshTokenStore[R].accessToken = tk

(* The callback request that carries upstream code "oc" and nonce n.       *)
CallbackFor(n) == [code |-> "oc", state |-> n, error |-> NoParam]

(* The answer the claim describes for a failed upstream exchange of the    *)
(* pending exchange d under nonce n in A.                                  *)
FailureRelayed(A, n, redirectUri, state) ==
  LET r == CallbackExchangeFailed(A, CallbackFor(n))
      again == CallbackExchangeFailed(r.auths, CallbackFor(n))
  IN /\ r.resp.status = 302 /\ r.resp.error = "server_error"
     /\ r.resp.location = redirectUri /\ r.resp.state = state
     /\ r.resp.code = 0
     /\ ~Has(r.auths, n)
     /\ again.resp.status = 400 /\ again.resp.error = "invalid_request"
     /\ again.auths = r.auths

PendingExchanges ==
  [clientId : {"c1"}, redirectUri : {"https://a/cb", "https://x/cb"},
   codeChallenge : {"h1"}, scopes : {ParseScope(NoParam)}, state : {NoParam, "xyz"}]

(* The failure branch of the callback taken by itself: for every pending   *)
(* exchange it answers as C30 says, and a callback never leaves the nonce  *)
(* it was answered server_error for.                                       *)
FailureBranchRelays ==
  /\ \A n \in 1..MaxAuths, d \in PendingExchanges :
       FailureRelayed(Put(openRouterAuths, n, d), n, d.redirectUri, d.state)
  /\ (authzReq.route = "callback" /\ authzResp.error = "server_error")
       => ~Has(openRouterAuths, authzReq.query.state)

(* An accepted authorization request was answered and no exchange is       *)
(* pending, so the callback for any nonce answers 400.                     *)
NoExchangeToFail ==
  /\ authzReq.route = "authorize" /\ authzResp.passed
  /\ ValidAuthorize(authzReq.query)
  /\ openRouterAuths = EmptyMap
  /\ \A n \in 1..MaxAuths :
       CallbackExchangeFailed(openRouterAuths, CallbackFor(n)).resp.status = 400

(* No callback is ever answered with the relayed server_error.             *)
ServerErrorNeverRelayed ==
  ~(authzReq.route = "callback" /\ authzResp.error = "server_error")

(* C31: the user id and API key stored with an access token are those of   *)
(* the upstream exchange its chain of tokens began with, across refresh    *)
(* rotations and interleaved grants.                                       *)
C31_TokenTraceable ==
  /\ \A R \in DOMAIN refreshTokenStore :
       Has(tokenStore, refreshTokenStore[R].accessToken) =>
         LET d == tokenStore[refreshTokenStore[R].accessToken]
         IN <<d.userId, d.apiKey>> = origin[R]
  /\ \A tk \in DOMAIN tokenStore :
       tokenStore[tk].refreshToken \in DOMAIN origin =>
         <<tokenStore[tk].userId, tokenStore[tk].apiKey>> = origin[tokenStore[tk].refreshToken]

(* The part of C31 the code keeps: a stored access token carries the user  *)
(* id and the API key of one login, the user id of its JWT, and the user   *)
(* id its chain began with.                                                *)
UserAndKeyOfOneLogin ==
  /\ \A tk \in DOMAIN tokenStore :
       /\ <<tokenStore[tk].userId, tokenStore[tk].apiKey>> \in ChainLogins
       /\ tokenStore[tk].userId = tk.sub
  /\ \A R \in DOMAIN refreshTokenStore :
       /\ refreshTokenStore[R].userId = origin[R][1]
       /\ Has(tokenStore, refreshTokenStore[R].accessToken) =>
            tokenStore[refreshTokenStore[R].accessToken].userId = origin[R][1]

(* A refresh token of a chain that began with one login of a user leads to *)
(* an access token that carries the key of another login of that user.     *)
ChainHasOtherLoginsKey ==
  \E R \in DOMAIN refreshTokenStore :
    /\ Has(tokenStore, refreshTokenStore[R].accessToken)
    /\ tokenStore[refreshTokenStore[R].accessToken].userId = origin[R][1]
    /\ tokenStore[refreshTokenStore[R].accessToken].apiKey # origin[R][2]

(* Call h was forwarded to a subprocess with an id and has no answer yet.  *)
Outstanding(h) ==
  /\ calls[h].session # 0
  /\ calls[h].id # NoId
  /\ h \in processes[calls[h].session].stdin
  /\ calls[h].res.sent = 0

(* C32: while a request with id i is pending on a session a second POST    *)
(* with the same id does not displace it: every outstanding request has    *)
(* its own pending entry, which refers to its own response handle, and its *)
(* own timeout.                                                            *)
C32_PendingNotDisplaced ==
  \A h \in DOMAIN calls :
    Outstanding(h) =>
      LET pending == sessionData[calls[h].session].pendingRequests IN
        /\ Has(pending, calls[h].id)
        /\ pending[calls[h].id].res = h
        /\ calls[h].timeout # <<>>

(* No earlier request of the same session object with the id of call h was *)
(* outstanding when h arrived: no other call with that id is unanswered or *)
(* was answered otherwise than through its entry.                          *)
SoleUserOfId(h) ==
  \A k \in DOMAIN calls :
    (k # h /\ calls[k].session = calls[h].session /\ calls[k].id = calls[h].id)
      => k \notin processes[calls[k].session].stdin \/ (k < h /\ calls[k].res.sent = 1
            /\ calls[k].timeout = <<>>) \/ (h < k /\ calls[h].res.sent = 1)

(* The part of C32 the code keeps: a request whose id no other outstanding *)
(* request of its session uses has its own entry, handle and timeout.      *)
PendingOwnedWhenIdsDiffer ==
  \A h \in DOMAIN calls :
    (Outstanding(h) /\ SoleUserOfId(h)) =>
      LET pending == sessionData[calls[h].session].pendingRequests IN
        /\ Has(pending, calls[h].id)
        /\ pending[calls[h].id].res = h
        /\ calls[h].timeout # <<>>

(* Two outstanding requests of one session carry the same id, and the      *)
(* entry for that id refers to the later one.                              *)
EarlierRequestDisplaced ==
  \E h, k \in DOMAIN calls :
    /\ h < k /\ Outstanding(h) /\ Outstanding(k)
    /\ calls[h].session = calls[k].session /\ calls[h].id = calls[k].id
    /\ sessionData[calls[h].session].pendingRequests[calls[h].id].res = k

(* An outstanding request reuses the id of an answered one and owns the    *)
(* entry.                                                                  *)
IdReusedAfterAnswer ==
  \E h, k \in DOMAIN calls :
    /\ k < h /\ Outstanding(h) /\ SoleUserOfId(h)
    /\ calls[k].session = calls[h].session /\ calls[k].id = calls[h].id
    /\ calls[k].res.sent = 1

(* C33: the exit event of a subprocess tears down only the session that    *)
(* owns it: when its session id was cleaned up and created anew before     *)
(* the event is handled, the new session, its subprocess and its pending   *)
(* requests are left intact.                                               *)
C33_ExitTearsDownOwnSession ==
  \A p \in DOMAIN processes :
    ~processes[p].exited =>
      LET W == AfterExit(Bridge, p) IN
        \A sid \in DOMAIN activeSessions :
          activeSessions[sid] # p =>
            /\ Has(W.activeSessions, sid) /\ W.activeSessions[sid] = activeSessions[sid]
            /\ W.sessionData[activeSessions[sid]] = sessionData[activeSessions[sid]]
            /\ W.processes[activeSessions[sid]] = processes[activeSessions[sid]]
            /\ \A h \in DOMAIN calls : calls[h].session = activeSessions[sid] => W.calls[h] = calls[h]

(* The part of C33 the code keeps: the exit event leaves every session     *)
(* registered under another id than the one its listener closed over.      *)
ExitLeavesOtherIds ==
  \A p \in DOMAIN processes :
    ~processes[p].exited =>
      LET W == AfterExit(Bridge, p) IN
        \A sid \in DOMAIN activeSessions :
          (activeSessions[sid] # p /\ processes[p].exitListener # <<sid>>) =>
            /\ Has(W.activeSessions, sid) /\ W.activeSessions[sid] = activeSessions[sid]
            /\ W.sessionData[activeSessions[sid]] = sessionData[activeSessions[sid]]
            /\ W.processes[activeSessions[sid]] = processes[activeSessions[sid]]
            /\ \A h \in DOMAIN calls : calls[h].session = activeSessions[sid] => W.calls[h] = calls[h]

(* The exit event of a killed subprocess was handled after its session id  *)
(* had been given to a new session: the new session is gone, its           *)
(* subprocess killed and its pending request answered.                     *)
ExitTookNewSession ==
  \E p, q \in DOMAIN processes :
    /\ p < q
    /\ processes[p].exited /\ processes[p].exitListener # <<>>
    /\ sessionData[q].sessionId = processes[p].exitListener[1]
    /\ sessionData[q].terminated = "process exited"
    /\ processes[q].killed /\ ~processes[q].exited
    /\ \E h \in DOMAIN calls : calls[h].session = q /\ calls[h].res.status = 408

(* C34: every POST /mcp that passed authentication and validation          *)
(* eventually receives exactly one response, when timers eventually fire;  *)
(* also a request without id whose method is not a notification.           *)
C34_EveryPostAnswered ==
  \A h \in 1..MaxCalls :
    /\ (h \in DOMAIN calls) ~> (h \in DOMAIN calls /\ calls[h].res.sent = 1)
    /\ [](h \in DOMAIN calls => calls[h].res.sent <= 1)

(* The part of C34 that is about safety: no caller is answered twice, and  *)
(* a request answered at once or holding its own pending entry is either   *)
(* answered or has its timeout armed.                                      *)
AnsweredAtMostOnce ==
  \A h \in DOMAIN calls :
    /\ calls[h].res.sent <= 1
    /\ (Outstanding(h) /\ SoleUserOfId(h)) => calls[h].timeout # <<>>

(* A forwarded request without id is unanswered, its session is gone and   *)
(* no timer is armed: nothing is left that could answer it.                *)
IdlessNeverAnswered ==
  \E h \in DOMAIN calls :
    /\ calls[h].id = NoId /\ calls[h].method = "tools/call"
    /\ calls[h].session # 0 /\ h \in processes[calls[h].session].stdin
    /\ calls[h].res.sent = 0
    /\ calls[h].timeout = <<>>
    /\ activeSessions = EmptyMap
    /\ ArmedDeadlines = {}

(* The bridge after a second GET /mcp on the session of the open           *)
(* connection c, by the same user.                                         *)
SecondGet(c) ==
  GetMcpHandler(Bridge, sseConns[c].user, sessionData[sseConns[c].session].sessionId, clock)

(* Connection c is the open sink of a registered session.                  *)
OpenSinkOfSession(c) ==
  /\ ~sseConns[c].closed /\ sseConns[c].session # 0
  /\ Has(activeSessions, sessionData[sseConns[c].session].sessionId)
  /\ activeSessions[sessionData[sseConns[c].session].sessionId] = sseConns[c].session
  /\ sessionData[sseConns[c].session].sseRes = c

(* C35: when two SSE connections were opened in succession on a session,   *)
(* the close of the older one does not clear the session's sink: sseRes    *)
(* still refers to the newer open connection, notifications reach it and   *)
(* its keep-alive interval is the one recorded on the session.             *)
C35_OlderCloseKeepsSink ==
  \A c \in DOMAIN sseConns :
    OpenSinkOfSession(c) =>
      LET p == sseConns[c].session
          W1 == SecondGet(c)
          c2 == Len(W1.sseConns)
          W2 == SseCloseHandler(W1, c)
          W3 == handleResponse(W2, p, <<"n", "\n">>)
      IN /\ W1.sessionData[p].sseRes = c2
         /\ W2.sessionData[p].sseRes = c2
         /\ ~W2.sseConns[c2].writableEnded
         /\ "notifications/message" \in W3.sseConns[c2].events
         /\ W2.sessionData[p].keepAliveInterval = c2 /\ W2.sseConns[c2].keepAlive

(* The part of C35 the code keeps: the close of the older connection       *)
(* leaves the newer connection open with its keep-alive interval running   *)
(* and recorded on the session, and the close of the newer one clears the  *)
(* sink.                                                                   *)
OlderCloseKeepsNewerOpen ==
  \A c \in DOMAIN sseConns :
    OpenSinkOfSession(c) =>
      LET p == sseConns[c].session
          W1 == SecondGet(c)
          c2 == Len(W1.sseConns)
          W2 == SseCloseHandler(W1, c)
      IN /\ W1.sessionData[p].sseRes = c2
         /\ ~W2.sseConns[c2].writableEnded /\ ~W2.sseConns[c2].closed
         /\ W2.sessionData[p].keepAliveInterval = c2 /\ W2.sseConns[c2].keepAlive
         /\ W2.sseConns[c].closed /\ ~W2.sseConns[c].keepAlive
         /\ SseCloseHandler(W1, c2).sessionData[p].sseRes = 0

(* An open sink whose close, after a second GET on its session, leaves the *)
(* session without sink while the newer connection is open: a             *)
(* notification is then written nowhere.                                   *)
OlderCloseClearsSink ==
  \E c \in DOMAIN sseConns :
    /\ OpenSinkOfSession(c)
    /\ LET p == sseConns[c].session
           W1 == SecondGet(c)
           c2 == Len(W1.sseConns)
           W2 == SseCloseHandler(W1, c)
       IN /\ W2.sessionData[p].sseRes = 0
          /\ ~W2.sseConns[c2].writableEnded
          /\ handleResponse(W2, p, <<"n", "\n">>).sseConns = W2.sseConns
          /\ sessionData[p].listenersSetup

(* The answer r of a code grant for code left the store S as it was, with  *)
(* the code, when it had not expired at t, still stored.                   *)
GrantLeftStore(S, r, code, t) ==
  /\ r.store.tokenStore = S.tokenStore
  /\ r.store.refreshTokenStore = S.refreshTokenStore
  /\ r.store.userTokenMap = S.userTokenMap
  /\ \A c \in DOMAIN S.authorizationCodes :
       (c # code \/ t <= S.authorizationCodes[c].expiresAt)
         => Has(r.store.authorizationCodes, c)
              /\ r.store.authorizationCodes[c] = S.authorizationCodes[c]

(* C36: an authorization_code grant that is rejected leaves the token      *)
(* store unchanged: no token is stored and the presented code is still     *)
(* redeemable within its lifetime.                                         *)
C36_RejectedGrantKeepsCode ==
  \A q \in CodeRequests, cs \in ClientCredentials :
    LET r == AuthorizationCodeGrant(MemStore, q[1], q[2], cs[1], cs[2], q[3],
                                    nextRefresh + 1, now)
    IN r.status # 200 => GrantLeftStore(MemStore, r, q[1], now)

(* The part of C36 the code keeps: a grant rejected before the code is     *)
(* consumed (missing parameter, wrong client secret, unknown code, wrong   *)
(* verifier) leaves the store unchanged, and no rejected grant stores a    *)
(* token.                                                                  *)
RejectedBeforeConsumeKeepsCode ==
  \A q \in CodeRequests, cs \in ClientCredentials :
    LET r == AuthorizationCodeGrant(MemStore, q[1], q[2], cs[1], cs[2], q[3],
                                    nextRefresh + 1, now)
    IN r.status # 200 =>
         /\ r.store.tokenStore = tokenStore
         /\ r.store.refreshTokenStore = refreshTokenStore
         /\ ~r.found => GrantLeftStore(MemStore, r, q[1], now)

(* A stored code that has not expired, for which a request with the right  *)
(* verifier and another redirect_uri is answered invalid_request and       *)
(* leaves the code deleted, so that the correct request is then refused.   *)
MismatchBurnsCode ==
  \E q \in CodeRequests :
    /\ Has(authorizationCodes, q[1]) /\ now <= authorizationCodes[q[1]].expiresAt
    /\ LET r == AuthorizationCodeGrant(MemStore, q[1], q[2], NoParam, NoParam, q[3],
                                       nextRefresh + 1, now)
           again == AuthorizationCodeGrant(r.store, q[1], authorizationCodes[q[1]].redirectUri,
                                           NoParam, NoParam, q[3], nextRefresh + 1, now)
       IN /\ r.status = 400 /\ r.error = "invalid_request"
          /\ ~Has(r.store.authorizationCodes, q[1])
          /\ again.status = 400 /\ again.error = "invalid_grant"

(* C37: POST /oauth/introspect reports a token active exactly when         *)
(* verifyBearerToken accepts it at that moment; an access token revoked by *)
(* refresh rotation is reported inactive.                                  *)
C37_IntrospectAgreesWithBearer ==
  \A tk \in issued :
    /\ introspect(MemStore, <<tk>>, now).active <=> verifyBearerToken(MemStore, tk, now).ok
    /\ (rotated # {} /\ ~Has(tokenStore, tk))
         => ~introspect(MemStore, <<tk>>, now).active

(* The part of C37 the code keeps: a token that verifyBearerToken accepts  *)
(* is reported active, and a token reported inactive is refused.           *)
AcceptedIsActive ==
  \A tk \in issued :
    verifyBearerToken(MemStore, tk, now).ok => introspect(MemStore, <<tk>>, now).active

(* An access token revoked by a refresh grant, absent from the store and   *)
(* refused by verifyBearerToken, is reported active.                       *)
RevokedReportedActive ==
  \E tk \in issued :
    /\ rotated # {}
    /\ ~Has(tokenStore, tk)
    /\ ~verifyBearerToken(MemStore, tk, now).ok
    /\ introspect(MemStore, <<tk>>, now).active

SecondCallbackRefused ==
  /\ \A n \in 1..MaxAuths, d \in PendingExchanges :
       LET A == Put(openRouterAuths, n, d)
           A1 == Del(A, n)
       IN /\ \A x \in Logins : CallbackAccepts(A, CallbackFor(n), x)
          /\ \A x \in Exchanges : ~CallbackAccepts(A1, CallbackFor(n), x)
          /\ CallbackExchangeFailed(A1, CallbackFor(n)).resp.status = 400
          /\ CallbackExchangeFailed(A1, CallbackFor(n)).resp.error = "invalid_request"
          /\ CallbackExchangeFailed(A1, CallbackFor(n)).auths = A1
  /\ \A q \in CallbackQueries, x \in Exchanges :
       ~Has(openRouterAuths, q.state) => ~CallbackAccepts(openRouterAuths, q, x)
  /\ authzReq.route = "callback" =>
       /\ authzResp.code = 0
       /\ authorizationCodes = EmptyMap /\ nextCode = 0

(* A callback carrying a code and a nonce was answered 400 invalid_request *)
(* and nothing was minted.                                                 *)
UnknownNonceRefused ==
  /\ authzReq.route = "callback"
  /\ authzReq.query.code # NoParam /\ authzReq.query.state # 0
  /\ authzReq.query.error = NoParam
  /\ authzResp.status = 400 /\ authzResp.error = "invalid_request"
  /\ authorizationCodes = EmptyMap

(* The principal of the session's user after another login, to which the   *)
(* upstream exchange returned another API key.                             *)
SameUserOtherKey(p) == [userId |-> sessionData[p].userId, apiKey |-> "k3"]

(* POST /mcp with id 2 by principal u on the session registered as sid.    *)
PostBy(u, sid) ==
  PostMcpHandler(Bridge, [user |-> u, header |-> sid, id |-> "2", method |-> "tools/call"],
                 clock)

(* C39: every message written to a session's subprocess comes from a       *)
(* request whose principal has the user id and the API key the subprocess  *)
(* was spawned for; a request that presents a different API key is not     *)
(* forwarded to an existing session's subprocess.                          *)
C39_ForwardedForSpawnPrincipal ==
  /\ \A p \in DOMAIN processes : \A h \in processes[p].stdin :
       /\ calls[h].user.userId = sessionData[p].userId
       /\ calls[h].user.apiKey = processes[p].OPENROUTER_API_KEY
  /\ \A sid \in DOMAIN activeSessions :
       LET p == activeSessions[sid] IN
         (~processes[p].killed /\ ~processes[p].exited
            /\ processes[p].OPENROUTER_API_KEY # SameUserOtherKey(p).apiKey)
           => PostBy(SameUserOtherKey(p), sid).processes[p].stdin = processes[p].stdin

(* The part of C39 the code keeps: every forwarded message comes from a    *)
(* request of the user the session was created for, the subprocess runs    *)
(* with the API key recorded on the session, and a session is created only *)
(* for a principal with an API key.                                        *)
ForwardedForSessionUser ==
  /\ \A p \in DOMAIN processes :
       /\ processes[p].OPENROUTER_API_KEY = sessionData[p].apiKey
       /\ sessionData[p].apiKey # NoParam
       /\ \A h \in processes[p].stdin : calls[h].user.userId = sessionData[p].userId
  /\ \A h \in DOMAIN calls :
       (calls[h].session # 0 /\ \A k \in 1..(h - 1) : calls[k].session # calls[h].session)
         => calls[h].user.apiKey = processes[calls[h].session].OPENROUTER_API_KEY

(* A request whose principal carries another API key than the one the      *)
(* subprocess was spawned with was written to the subprocess.              *)
OtherKeyForwarded ==
  \E p \in DOMAIN processes : \E h \in processes[p].stdin :
    /\ calls[h].user.userId = sessionData[p].userId
    /\ calls[h].user.apiKey # processes[p].OPENROUTER_API_KEY

(* The secrets a caller may present.                                       *)
PresentedSecrets ==
  {"secret", "wrong", "known"} \cup {RandomClientSecret(n) : n \in 1..MaxClients}

(* C40: for any client metadata, after registerClient returned client_id   *)
(* and client_secret, getClient(client_id) is a record with that client_id *)
(* and verifyClient accepts that secret and no other.                      *)
C40_RegisteredClientVerifies ==
  registration # <<>> =>
    LET r == registration[1].response IN
      /\ getClient(r.client_id)
      /\ clientRecords[r.client_id].client_id = r.client_id
      /\ verifyClient(r.client_id, r.client_secret)
      /\ \A x \in PresentedSecrets \ {r.client_secret} : ~verifyClient(r.client_id, x)

(* The part of C40 the code keeps: the client is stored under the returned *)
(* id, and when the metadata has no client_id and no client_secret of its  *)
(* own the record has that id and the returned secret alone verifies.      *)
RegisteredWithoutOwnCredentials ==
  registration # <<>> =>
    LET r == registration[1].response
        m == registration[1].metadata
    IN /\ getClient(r.client_id)
       /\ m.client_id = NoParam => clientRecords[r.client_id].client_id = r.client_id
       /\ m.client_secret = NoParam =>
            /\ verifyClient(r.client_id, r.client_secret)
            /\ \A x \in PresentedSecrets \ {r.client_secret} : ~verifyClient(r.client_id, x)

(* A registration whose metadata named a client_secret: the returned       *)
(* secret is refused and the secret of the metadata is accepted.           *)
MetadataSecretStored ==
  /\ registration # <<>>
  /\ registration[1].metadata.client_secret # NoParam
  /\ ~verifyClient(registration[1].response.client_id, registration[1].response.client_secret)
  /\ verifyClient(registration[1].response.client_id, registration[1].metadata.client_secret)

(* A registration without credentials in its metadata, verified.           *)
PlainRegistrationVerifies ==
  /\ registration # <<>>
  /\ registration[1].metadata.client_secret = NoParam
  /\ registration[1].metadata.client_id = NoParam
  /\ verifyClient(registration[1].response.client_id, registration[1].response.client_secret)
====
